---- MODULE Spec2Model ----
(***************************************************************************)
(* State-machine model of the OkQueuePd matchmaking simulator              *)
(* (src/src/simulation.rs, src/src/matchmaker.rs, src/src/types.rs,        *)
(* src/src/lib.rs).                                                        *)
(*                                                                         *)
(* Numbers.  The source computes in f64.  The model computes in exact      *)
(* integers on fixed scales, so that every comparison the source makes is  *)
(* made on the same rational values:                                       *)
(*   - a skill percentile p in [0,1] is the integer p * PercentileScale;   *)
(*   - a raw skill s in [-1,1] is the integer s * SkillScale;              *)
(*   - pings are whole milliseconds, wait times whole seconds.             *)
(* Option<T> is a sequence: <<>> is None and <<x>> is Some(x).             *)
(* HashMap<K,V> is a function, Vec<T> a sequence, HashSet<T> a set.        *)
(* Where the source iterates an unordered HashMap/HashSet the model takes  *)
(* the iteration order as a nondeterministic choice.                       *)
(*                                                                         *)
(* Sizes.  The source's 6-a-side (32-a-side for Ground War) teams, its     *)
(* 12-player Free For All, its parties of up to six, its 200 (50) servers  *)
(* per data center and playlist and its ten data centers are scaled down   *)
(* to TeamSize, FFASize, PartyCapacity, ServerCapacity and the excerpt     *)
(* DefaultDataCenters, so that full lobbies, saturated data centers and    *)
(* completed matches occur in a population of MaxPlayers players.          *)
(***************************************************************************)
EXTENDS Integers, Sequences, FiniteSets, TLC

\* ------------------------------------------------------------------ bounds
MaxPlayers == 4        \* players ever generated
MaxTime == 2           \* ticks ever run
SnapshotLimit == 1     \* snapshots the history keeps (1000 in the simulation)
TeamSkillScale == 12   \* team means are kept in twelfths of a skill step
ArrivalRates == {0, 10} \* the rates set_arrival_rate is called with
MaxParties == 1        \* parties ever created
PartyCapacity == 2     \* members a party can hold
MaxPartyPlayer == 1    \* largest player id handed to a party operation
TeamSize == 2          \* players per team in the two-team playlists
FFASize == 2           \* players of a Free For All match
ServerCapacity == 1    \* servers per data center and playlist

\* ------------------------------------------------------------------ scales
PercentileScale == 7200
SkillScale == 120

\* ------------------------------------------------------------------ helpers
None == <<>>
Some(x) == <<x>>
IsSome(o) == Len(o) = 1
IsNone(o) == Len(o) = 0
Unwrap(o) == o[1]

Range(seq) == {seq[i] : i \in 1..Len(seq)}
Contains(seq, x) == \E i \in 1..Len(seq) : seq[i] = x

Min(a, b) == IF a <= b THEN a ELSE b
Max(a, b) == IF a >= b THEN a ELSE b
Abs(x) == IF x < 0 THEN 0 - x ELSE x
Clamp(x, lo, hi) == IF x < lo THEN lo ELSE IF x > hi THEN hi ELSE x

SetMin(S) == CHOOSE x \in S : \A y \in S : x <= y
SetMax(S) == CHOOSE x \in S : \A y \in S : x >= y

RECURSIVE SeqSum(_)
SeqSum(seq) == IF seq = <<>> THEN 0 ELSE seq[1] + SeqSum(Tail(seq))

RECURSIVE Flatten(_)
Flatten(seqs) == IF seqs = <<>> THEN <<>> ELSE seqs[1] \o Flatten(Tail(seqs))

RECURSIVE Filter(_, _)
Filter(seq, keep) ==
    IF seq = <<>> THEN <<>>
    ELSE (IF seq[1] \in keep THEN <<seq[1]>> ELSE <<>>) \o Filter(Tail(seq), keep)

\* The sequences that list every element of the finite set S exactly once.
Perms(S) == {q \in [1..Cardinality(S) -> S] : \A i, j \in 1..Cardinality(S) : i # j => q[i] # q[j]}

\* The elements of the set of integers S in increasing order.
RECURSIVE Ascending(_)
Ascending(S) == IF S = {} THEN <<>> ELSE <<SetMin(S)>> \o Ascending(S \ {SetMin(S)})

\* ------------------------------------------------------------------ types.rs: enums
Regions == {"NorthAmerica", "Europe", "AsiaPacific", "SouthAmerica", "Other"}

\* An adjacency graph without edges.
adjacent_regions_none(region) == {}

adjacent_regions(region) ==
    CASE region = "NorthAmerica" -> {"Europe", "SouthAmerica"}
      [] region = "Europe"       -> {"NorthAmerica", "AsiaPacific"}
      [] region = "AsiaPacific"  -> {"Europe", "SouthAmerica"}
      [] region = "SouthAmerica" -> {"NorthAmerica", "AsiaPacific"}
      [] OTHER                   -> {"NorthAmerica", "Europe", "AsiaPacific", "SouthAmerica"}

PlayerStates == {"Offline", "InLobby", "Searching", "InMatch"}

\* The playlists in the order run_tick processes them.
PlaylistOrder ==
    <<"TeamDeathmatch", "SearchAndDestroy", "Domination", "GroundWar", "FreeForAll">>
Playlists == Range(PlaylistOrder)

\* 12 (64 for Ground War) in the source: two teams of 6 (32), or 12 players
\* of a Free For All match.
required_players(playlist) ==
    CASE playlist = "GroundWar"  -> 2 * (TeamSize + 1)
      [] playlist = "FreeForAll" -> FFASize
      [] OTHER                   -> 2 * TeamSize

\* 12 for Free For All (every player a team), 2 otherwise.
team_count(playlist) ==
    IF playlist = "FreeForAll" THEN FFASize ELSE 2

avg_match_duration_seconds(playlist) ==
    CASE playlist = "SearchAndDestroy" -> 900
      [] playlist = "GroundWar"        -> 1200
      [] OTHER                         -> 600

\* ------------------------------------------------------------------ types.rs: configuration
\* MatchmakingConfig::default(), with the fields the model reads.  Percentile
\* tolerances are on PercentileScale: 0.05 = 360, 0.01 = 72, 0.5 = 3600,
\* 0.1 = 720, 0.02 = 144, 0.8 = 5760.
DefaultConfig ==
    [ max_ping                    |-> 200,
      delta_ping_initial          |-> 10,
      delta_ping_rate             |-> 2,
      delta_ping_max              |-> 100,
      skill_similarity_initial    |-> 360,
      skill_similarity_rate       |-> 72,
      skill_similarity_max        |-> 3600,
      max_skill_disparity_initial |-> 720,
      max_skill_disparity_rate    |-> 144,
      max_skill_disparity_max     |-> 5760,
      weight_geo                  |-> 30,
      weight_skill                |-> 40,
      weight_input                |-> 15,
      weight_platform             |-> 15,
      party_player_fraction       |-> 50,
      tick_interval               |-> 5,
      experience_window_size      |-> 5,
      num_skill_buckets           |-> 10,
      top_k_candidates            |-> 50,
      use_exact_team_balancing    |-> TRUE,
      enable_skill_evolution      |-> TRUE,
      skill_update_batch_size     |-> 10,
      region_configs              |-> <<>> ]

delta_ping_backoff(cfg, wait_time) ==
    Min(cfg.delta_ping_initial + cfg.delta_ping_rate * wait_time, cfg.delta_ping_max)

skill_similarity_backoff(cfg, wait_time) ==
    Min(cfg.skill_similarity_initial + cfg.skill_similarity_rate * wait_time,
        cfg.skill_similarity_max)

\* A disparity curve without its cap.
skill_disparity_backoff_uncapped(cfg, wait_time) ==
    cfg.max_skill_disparity_initial + cfg.max_skill_disparity_rate * wait_time

skill_disparity_backoff(cfg, wait_time) ==
    Min(cfg.max_skill_disparity_initial + cfg.max_skill_disparity_rate * wait_time,
        cfg.max_skill_disparity_max)

\* The lookups of get_region_*: the field of the region's RegionConfig if
\* the region has one and the field is set, the global field otherwise.
RegionOverride(cfg, region, field) ==
    IF region \in DOMAIN cfg.region_configs /\ IsSome(cfg.region_configs[region][field])
    THEN Unwrap(cfg.region_configs[region][field])
    ELSE cfg[field]

get_region_max_ping(cfg, region) == RegionOverride(cfg, region, "max_ping")

region_delta_ping_backoff(cfg, region, wait_time) ==
    Min(RegionOverride(cfg, region, "delta_ping_initial")
            + RegionOverride(cfg, region, "delta_ping_rate") * wait_time,
        cfg.delta_ping_max)

region_skill_similarity_backoff(cfg, region, wait_time) ==
    Min(RegionOverride(cfg, region, "skill_similarity_initial")
            + RegionOverride(cfg, region, "skill_similarity_rate") * wait_time,
        cfg.skill_similarity_max)

\* ------------------------------------------------------------------ data centers
\* Two of the ten data centers of init_default_data_centers, with the ids
\* the source gives them: 0 is US-East (North America), 3 is EU-West (Europe).
DCIds == {0, 3}

\* DataCenter::new: every playlist starts with no busy server; the source's
\* capacities (200, Ground War 50) are scaled to ServerCapacity.
DataCenter_new(id, region) ==
    [ id              |-> id,
      region          |-> region,
      server_capacity |-> [pl \in Playlists |-> ServerCapacity],
      busy_servers    |-> [pl \in Playlists |-> 0] ]

DefaultDataCenters ==
    [id \in DCIds |-> DataCenter_new(id, IF id = 0 THEN "NorthAmerica" ELSE "Europe")]

\* A data center that always reports a free server.
available_servers_any(dc, playlist) == 1

available_servers(dc, playlist) ==
    IF dc.server_capacity[playlist] >= dc.busy_servers[playlist]
    THEN dc.server_capacity[playlist] - dc.busy_servers[playlist]
    ELSE 0

\* ------------------------------------------------------------------ players
\* What generate_population draws for one player.  A site is a location of
\* the default region list; its pings are km/100 + 15 to each data center,
\* rounded (NA (39,-95): 1553 km and 7059 km; EU (50,10): 6611 km and 715 km).
Sites == {"NA", "EU"}

SiteRegion(site) == IF site = "NA" THEN "NorthAmerica" ELSE "Europe"

SitePings(site) ==
    IF site = "NA" THEN [id \in DCIds |-> IF id = 0 THEN 30 ELSE 86]
    ELSE [id \in DCIds |-> IF id = 0 THEN 81 ELSE 22]

\* The draws of generate_population for one player: site, skill, platform,
\* input device, playlists.
Kind(site, skill, playlists) ==
    [ site |-> site, skill |-> skill,
      platform |-> IF site = "NA" THEN "PC" ELSE "PlayStation",
      input_device |-> IF site = "NA" THEN "MouseKeyboard" ELSE "Controller",
      playlists |-> playlists ]

\* The draws of one generate_population call, one kind per new player.
\* Trio: two European players and a North American one who plays Team
\* Deathmatch only and ties with the second at the top of the skill range
\* (generate_skill clamps to [-1, 1]).  Squad: three European
\* players and a North American one, four skills.  Team: four European
\* players who play Team Deathmatch only, four skills.
Trio ==
    << Kind("EU", 0, {"TeamDeathmatch", "FreeForAll"}),
       Kind("EU", SkillScale, {"TeamDeathmatch", "FreeForAll"}),
       Kind("NA", SkillScale, {"TeamDeathmatch"}) >>

Squad ==
    << Kind("EU", 0 - 60, {"TeamDeathmatch", "FreeForAll"}),
       Kind("EU", 0, {"TeamDeathmatch", "FreeForAll"}),
       Kind("EU", 60, {"TeamDeathmatch", "FreeForAll"}),
       Kind("NA", 120, {"TeamDeathmatch", "FreeForAll"}) >>

Team ==
    << Kind("EU", 0 - 60, {"TeamDeathmatch"}),
       Kind("EU", 0, {"TeamDeathmatch"}),
       Kind("EU", 60, {"TeamDeathmatch"}),
       Kind("EU", 120, {"TeamDeathmatch"}) >>

\* Duo: two European players of two skills.
Duo ==
    << Kind("EU", 0, {"TeamDeathmatch", "FreeForAll"}),
       Kind("EU", 60, {"TeamDeathmatch", "FreeForAll"}) >>

\* Player::update_skill_bucket: floor(percentile * B) clamped to 1..B.
update_skill_bucket(skill_percentile, num_buckets) ==
    Clamp((skill_percentile * num_buckets) \div PercentileScale, 1, num_buckets)

\* Player::new followed by the assignments of generate_population.
Player_new(id, kind) ==
    [ id                  |-> id,
      location            |-> kind.site,
      region              |-> SiteRegion(kind.site),
      platform            |-> kind.platform,
      input_device        |-> kind.input_device,
      skill               |-> kind.skill,
      skill_percentile    |-> PercentileScale \div 2,
      skill_bucket        |-> 5,
      state               |-> "Offline",
      current_match       |-> None,
      party_id            |-> None,
      preferred_playlists |-> kind.playlists,
      dc_pings            |-> SitePings(kind.site),
      best_ping           |-> SetMin({SitePings(kind.site)[d] : d \in DCIds}),
      search_start_time   |-> None,
      recent_experience       |-> <<>>,
      session_start_time      |-> None,
      matches_in_session      |-> 0,
      last_session_experience |-> <<>>,
      last_session_end_time   |-> None ]

\* The orders in which a stable sort by skill can leave the players: players
\* of equal skill keep the order in which the HashMap yielded them, which is
\* any order.
SkillOrders(ps) ==
    {q \in Perms(DOMAIN ps) : \A i, j \in 1..Len(q) : i < j => ps[q[i]].skill <= ps[q[j]].skill}

RankOf(q, id) == (CHOOSE i \in 1..Len(q) : q[i] = id) - 1

\* update_skill_percentiles with the sorted order q: the player at rank r
\* (from 0) of n gets percentile (r + 0.5) / n and its bucket.
update_skill_percentiles(ps, q, num_buckets) ==
    [id \in DOMAIN ps |->
        LET pct == (PercentileScale * (2 * RankOf(q, id) + 1)) \div (2 * Len(q))
        IN [ps[id] EXCEPT !.skill_percentile = pct,
                          !.skill_bucket = update_skill_bucket(pct, num_buckets)]]

\* ------------------------------------------------------------------ parties
Platforms == {"PC", "PlayStation", "Xbox"}
InputDevices == {"MouseKeyboard", "Controller"}

\* A location is a site or the centroid of several sites.  It is kept as the
\* position on the line from NA (0) to EU (LocationScale); a centroid is the
\* mean of the members' positions, exact for up to six members.
LocationScale == 60
SitePosition(site) == IF site = "NA" THEN 0 ELSE LocationScale

\* Location::distance_km between two positions, doubled: the two sites are
\* 7710 km apart, 128.5 km for each unit of position.
distance_km2(a, b) == Abs(a - b) * 257

SeqMin(seq) == SetMin(Range(seq))
SeqMax(seq) == SetMax(Range(seq))

\* The aggregates Party::from_players and Party::update_aggregates compute
\* from the member list (a list may name a player twice).
PartyAggregates(ps, player_ids) ==
    LET n == Len(player_ids)
        skills == [i \in 1..n |-> ps[player_ids[i]].skill]
        pcts == [i \in 1..n |-> ps[player_ids[i]].skill_percentile]
        locs == [i \in 1..n |-> SitePosition(ps[player_ids[i]].location)]
    IN [ avg_skill                  |-> SeqSum(skills) \div n,
         skill_disparity            |-> SeqMax(skills) - SeqMin(skills),
         avg_skill_percentile       |-> SeqSum(pcts) \div n,
         skill_percentile_disparity |-> SeqMax(pcts) - SeqMin(pcts),
         preferred_playlists        |->
             {pl \in Playlists : \A i \in 1..n : pl \in ps[player_ids[i]].preferred_playlists},
         platforms                  |->
             [pf \in Platforms |-> Cardinality({i \in 1..n : ps[player_ids[i]].platform = pf})],
         input_devices              |->
             [dv \in InputDevices |->
                 Cardinality({i \in 1..n : ps[player_ids[i]].input_device = dv})],
         avg_location               |-> SeqSum(locs) \div n ]

Party_from_players(id, ps, player_ids) ==
    [id |-> id, player_ids |-> player_ids, leader_id |-> player_ids[1]]
        @@ PartyAggregates(ps, player_ids)

\* Party::update_aggregates: the members the player table does not know are
\* skipped, and nothing changes when none is left.
update_aggregates(party, ps) ==
    LET known == Filter(party.player_ids, DOMAIN ps)
    IN IF known = <<>> THEN party
       ELSE [id |-> party.id, player_ids |-> party.player_ids, leader_id |-> party.leader_id]
                @@ PartyAggregates(ps, known)

\* create_party succeeds on a non-empty list of at most PartyCapacity (six in
\* the source) existing players that are in no party and are in the lobby or
\* offline.
create_party_ok(ps, player_ids) ==
    /\ player_ids # <<>>
    /\ \A i \in 1..Len(player_ids) :
          /\ player_ids[i] \in DOMAIN ps
          /\ IsNone(ps[player_ids[i]].party_id)
          /\ ps[player_ids[i]].state \in {"InLobby", "Offline"}
    /\ Len(player_ids) <= PartyCapacity

\* create_party on the player table ps and party table pts with the next
\* party id npid: the tables and the next id after the call (unchanged when
\* the call returns an error).
create_party(ps, pts, npid, player_ids) ==
    IF ~create_party_ok(ps, player_ids)
    THEN [ok |-> FALSE, players |-> ps, parties |-> pts, next_party_id |-> npid]
    ELSE [ ok |-> TRUE,
           players |-> [id \in DOMAIN ps |->
                          IF id \in Range(player_ids)
                          THEN [ps[id] EXCEPT !.party_id = Some(npid)] ELSE ps[id]],
           parties |-> (npid :> Party_from_players(npid, ps, player_ids)) @@ pts,
           next_party_id |-> npid + 1 ]

\* ------------------------------------------------------------------ configurations
\* A configuration with one tick per ten minutes, so that a wait of one tick
\* reaches the end of every backoff curve and matches complete within MaxTime
\* ticks; without auto-generated parties and skill evolution, with four skill
\* buckets, and with
\* skill tolerances that start at 0.35 and (similarity) end at 0.8, so that
\* in a population of three or four some lobbies are feasible at once and
\* others only after a wait.
CoarseConfig ==
    [DefaultConfig EXCEPT !.tick_interval = 600,
                          !.party_player_fraction = 0,
                          !.num_skill_buckets = 4,
                          !.enable_skill_evolution = FALSE,
                          !.skill_similarity_initial = 2520,
                          !.skill_similarity_max = 5760,
                          !.max_skill_disparity_initial = 2520]

\* The coarse configuration with the default ten skill buckets.
BucketConfig == [CoarseConfig EXCEPT !.num_skill_buckets = 10]

\* The coarse configuration with skill evolution and a percentile re-rank
\* after every match.
EvolvingConfig ==
    [CoarseConfig EXCEPT !.enable_skill_evolution = TRUE,
                         !.skill_update_batch_size = 1,
                         !.experience_window_size = 1]

\* The evolving configuration with a percentile re-rank after every second
\* match.
BatchedConfig == [EvolvingConfig EXCEPT !.skill_update_batch_size = 2]

\* The configurations handed to Simulation::new and update_config.
Configs == {CoarseConfig, BucketConfig}

\* ------------------------------------------------------------------ state
VARIABLES
    current_time,      \* simulation time in ticks
    players,           \* HashMap<usize, Player>
    data_centers,      \* Vec<DataCenter>, by data center id
    searches,          \* Vec<SearchObject>
    matches,           \* HashMap<usize, Match>
    config,            \* MatchmakingConfig
    stats,             \* SimulationStats
    arrival_rate,      \* the rate of the Poisson cap on arrivals
    next_player_id,
    next_search_id,
    next_match_id,
    next_party_id,
    parties,           \* HashMap<usize, Party>
    matches_since_percentile_update,
    match_results,     \* the Vec<MatchResult> of the last tick's run_matchmaking
    probe              \* the last direct call of a pure function: arguments and result

vars == <<current_time, players, data_centers, searches, matches, config, stats, arrival_rate,
          next_player_id, next_search_id, next_match_id, next_party_id, parties,
          matches_since_percentile_update, match_results, probe>>

\* No pure function has been called directly.
NoProbe == [op |-> "none"]

\* SimulationStats::default() with the fields the model reads.
DefaultStats ==
    [ ticks             |-> 0,
      players_offline   |-> 0,
      players_in_lobby  |-> 0,
      players_searching |-> 0,
      players_in_match  |-> 0,
      active_matches    |-> 0,
      total_matches     |-> 0,
      total_sessions_completed    |-> 0,
      session_length_distribution |-> <<>>,
      skill_distribution_over_time |-> <<>>,
      churn_threshold_ticks       |-> 0 ]

\* SimulationStats::default() with, besides, the counters total_returns and
\* blowout_count, which the simulation writes and reads only for reporting.
CountedStats ==
    [ total_returns |-> 0, blowout_count |-> 0,
      blowout_rate |-> [num |-> 0, den |-> 1] ] @@ DefaultStats

\* The default value of the statistics record, field by field.
SimulationStats_default(fields) == [f \in fields |-> CountedStats[f]]

\* counter += n, for a counter the statistics record carries; a record
\* without the counter leaves it out of the state.
Count(st, counter, n) ==
    IF counter \in DOMAIN st.stats THEN [st EXCEPT !.stats[counter] = @ + n] ELSE st

\* Simulation::new(config, seed) with a configuration of configs and the
\* statistics record default_stats, then init_default_data_centers.
Simulation_new(configs, default_stats) ==
    /\ current_time = 0
    /\ players = <<>>
    /\ data_centers = DefaultDataCenters
    /\ searches = <<>>
    /\ matches = <<>>
    /\ config \in configs
    /\ stats = [default_stats EXCEPT !.churn_threshold_ticks = 100]
    /\ arrival_rate = 10
    /\ next_player_id = 0
    /\ next_search_id = 0
    /\ next_match_id = 0
    /\ next_party_id = 0
    /\ parties = <<>>
    /\ matches_since_percentile_update = 0
    /\ match_results = <<>>
    /\ probe = NoProbe

InitWith(configs) == Simulation_new(configs, DefaultStats)

Init == InitWith(Configs)

\* ------------------------------------------------------------------ generate_population
\* f64::round of total * fraction (fraction in percent), half away from zero.
target_party_players(total, fraction) == (2 * total * fraction + 100) \div 200

\* The party size the loop samples when max_size players remain, from the
\* draw d in 2..4.
SampledPartySize(max_size, d) ==
    IF max_size = 2 THEN 2
    ELSE IF max_size = 3 THEN (IF d >= 3 THEN 3 ELSE 2)
    ELSE d

\* The auto-party loop of generate_population over the shuffled ids, from
\* index idx (from 0) with `assigned` players in parties so far; draws[k] is
\* the size draw of the k-th iteration still to run.  st is the record of
\* players, parties and next_party_id.
RECURSIVE AutoParties(_, _, _, _, _, _)
AutoParties(st, shuffled, idx, assigned, target, draws) ==
    LET total == Len(shuffled)
        max_size == Min(total - idx, 4)
    IN IF ~(idx + 1 < total /\ assigned < target) \/ max_size < 2 \/ draws = <<>> THEN st
       ELSE LET size == SampledPartySize(max_size, draws[1])
                ids == SubSeq(shuffled, idx + 1, idx + size)
                ok == create_party_ok(st.players, ids)
                st2 == create_party(st.players, st.parties, st.next_party_id, ids)
            IN IF idx + size > total THEN st
               ELSE AutoParties(st2, shuffled, idx + size,
                                IF ok THEN assigned + size ELSE assigned, target, Tail(draws))

\* The new players of one generate_population call: ids from next_player_id
\* on, one kind each.
NewPlayers(first_id, kinds) ==
    [id \in first_id..(first_id + Len(kinds) - 1) |-> Player_new(id, kinds[id - first_id + 1])]

\* generate_population(count) with its random draws: the kind of every new
\* player, the order q of the skill sort, the shuffle and the size draws of
\* the auto-party loop.
generate_population(ps, pts, npid, first_id, cfg, kinds, q, shuffled, draws) ==
    LET ranked == update_skill_percentiles(ps, q, cfg.num_skill_buckets)
        st == [players |-> ranked, parties |-> pts, next_party_id |-> npid]
        fraction == Clamp(cfg.party_player_fraction, 0, 100)
    IN IF fraction > 0 /\ Cardinality(DOMAIN ranked) >= 2
       THEN AutoParties(st, shuffled, 0, 0,
                        target_party_players(Len(shuffled), fraction), draws)
       ELSE st

GeneratePopulationOf(population_draws) ==
    \E kinds \in {d \in population_draws : next_player_id + Len(d) <= MaxPlayers} :
        LET all == NewPlayers(next_player_id, kinds) @@ players
            auto == config.party_player_fraction > 0 /\ Cardinality(DOMAIN all) >= 2
        IN \E q \in SkillOrders(all) :
           \E shuffled \in (IF auto THEN Perms(DOMAIN all) ELSE {<<>>}) :
           \E draws \in (IF auto THEN [1..(Cardinality(DOMAIN all) \div 2) -> 2..4] ELSE {<<>>}) :
               LET st == generate_population(all, parties, next_party_id, next_player_id,
                                             config, kinds, q, shuffled, draws)
               IN /\ st.next_party_id <= MaxParties
                  /\ players' = st.players
                  /\ parties' = st.parties
                  /\ next_party_id' = st.next_party_id
                  /\ next_player_id' = next_player_id + Len(kinds)
                  /\ UNCHANGED <<arrival_rate, current_time, data_centers, searches, matches, config, stats,
                                 next_search_id, next_match_id,
                                 matches_since_percentile_update, match_results, probe>>

GeneratePopulation == GeneratePopulationOf({Trio})

GenerateSquad == GeneratePopulationOf({Squad, Team})

\* ------------------------------------------------------------------ party operations
\* The players a caller names in party operations, and the id lists it hands
\* to create_party: repetitions allowed, up to one more than a party can hold.
PartyPlayers == DOMAIN players \cap 0..MaxPartyPlayer

PartyArgs == UNION {[1..n -> PartyPlayers] : n \in 1..(PartyCapacity + 1)}

CreatePartyOf(args) ==
    \E player_ids \in args :
        LET st == create_party(players, parties, next_party_id, player_ids)
        IN /\ create_party_ok(players, player_ids)
           /\ next_party_id < MaxParties
           /\ players' = st.players
           /\ parties' = st.parties
           /\ next_party_id' = st.next_party_id
           /\ UNCHANGED <<arrival_rate, current_time, data_centers, searches, matches, config, stats,
                          next_player_id, next_search_id, next_match_id,
                          matches_since_percentile_update, match_results, probe>>

CreateParty == CreatePartyOf(PartyArgs)

\* The first two players form a party.
CreatePair == CreatePartyOf({<<0, 1>>})

\* A party operation's return: ok is FALSE for Err, and the tables are then
\* as they were, because every Err is returned before the first assignment.
PartyErr(ps, pts, srch) == [ok |-> FALSE, players |-> ps, parties |-> pts, searches |-> srch]

\* join_party: the party exists and is below capacity, the player exists, is
\* in no party and is in the lobby or offline; then the player is appended
\* and the aggregates are recomputed.
join_party(ps, pts, srch, party_id, player_id) ==
    IF party_id \notin DOMAIN pts THEN PartyErr(ps, pts, srch)
    ELSE IF Len(pts[party_id].player_ids) >= PartyCapacity THEN PartyErr(ps, pts, srch)
    ELSE IF player_id \notin DOMAIN ps THEN PartyErr(ps, pts, srch)
    ELSE IF IsSome(ps[player_id].party_id) THEN PartyErr(ps, pts, srch)
    ELSE IF ps[player_id].state \notin {"InLobby", "Offline"} THEN PartyErr(ps, pts, srch)
    ELSE LET ps2 == [ps EXCEPT ![player_id].party_id = Some(party_id)]
             joined == [pts[party_id] EXCEPT !.player_ids = Append(@, player_id)]
         IN [ ok       |-> TRUE,
              players  |-> ps2,
              parties  |-> [pts EXCEPT ![party_id] = update_aggregates(joined, ps2)],
              searches |-> srch ]

JoinParty ==
    \E party_id \in DOMAIN parties, player_id \in PartyPlayers :
        LET r == join_party(players, parties, searches, party_id, player_id)
        IN /\ r.ok
           /\ players' = r.players
           /\ parties' = r.parties
           /\ UNCHANGED <<arrival_rate, current_time, data_centers, searches, matches, config, stats,
                          next_player_id, next_search_id, next_match_id, next_party_id,
                          matches_since_percentile_update, match_results, probe>>

\* A removal that leaves the key in place.
RemoveKey_kept(f, k) == f

\* The function f without the key k.
RemoveKey(f, k) == [x \in DOMAIN f \ {k} |-> f[x]]

\* A leave_party that keeps the leader it had.
leave_party_led(ps, pts, srch, party_id, player_id) ==
    IF party_id \notin DOMAIN pts \/ ~Contains(pts[party_id].player_ids, player_id)
    THEN [ok |-> FALSE, players |-> ps, parties |-> pts, searches |-> srch]
    ELSE LET rest == SelectSeq(pts[party_id].player_ids, LAMBDA id : id # player_id)
         IN [ ok       |-> TRUE,
              players  |-> [ps EXCEPT ![player_id].party_id = None],
              parties  |-> IF rest = <<>> THEN [x \in DOMAIN pts \ {party_id} |-> pts[x]]
                           ELSE [pts EXCEPT ![party_id].player_ids = rest],
              searches |-> srch ]

\* A leave_party that clears the party id of a player who is no member.
leave_party_clearing(ps, pts, srch, party_id, player_id) ==
    [ ok       |-> FALSE,
      players  |-> IF player_id \in DOMAIN ps
                   THEN [ps EXCEPT ![player_id].party_id = None] ELSE ps,
      parties  |-> pts,
      searches |-> srch ]

\* leave_party: the party exists and the player is a member; then the player
\* is removed, an emptied party is dropped, and otherwise the first remaining
\* member leads if the leader left and the aggregates are recomputed.
leave_party(ps, pts, srch, party_id, player_id) ==
    IF party_id \notin DOMAIN pts THEN PartyErr(ps, pts, srch)
    ELSE IF ~Contains(pts[party_id].player_ids, player_id) THEN PartyErr(ps, pts, srch)
    ELSE LET rest == SelectSeq(pts[party_id].player_ids, LAMBDA id : id # player_id)
             ps2 == IF player_id \in DOMAIN ps
                    THEN [ps EXCEPT ![player_id].party_id = None] ELSE ps
             left == [pts[party_id] EXCEPT
                         !.player_ids = rest,
                         !.leader_id = IF @ = player_id THEN rest[1] ELSE @]
         IN [ ok       |-> TRUE,
              players  |-> ps2,
              parties  |-> IF rest = <<>> THEN RemoveKey(pts, party_id)
                           ELSE [pts EXCEPT ![party_id] = update_aggregates(left, ps2)],
              searches |-> srch ]

LeaveParty ==
    \E party_id \in DOMAIN parties, player_id \in PartyPlayers :
        LET r == leave_party(players, parties, searches, party_id, player_id)
        IN /\ r.ok
           /\ players' = r.players
           /\ parties' = r.parties
           /\ UNCHANGED <<arrival_rate, current_time, data_centers, searches, matches, config, stats,
                          next_player_id, next_search_id, next_match_id, next_party_id,
                          matches_since_percentile_update, match_results, probe>>

\* A disband_party that sends the searching members to the lobby and leaves
\* their search objects in the queue.
disband_party_queued(ps, pts, srch, party_id) ==
    IF party_id \notin DOMAIN pts
    THEN [ok |-> FALSE, players |-> ps, parties |-> pts, searches |-> srch]
    ELSE [ ok       |-> TRUE,
           players  |-> [id \in DOMAIN ps |->
                           IF id \in Range(pts[party_id].player_ids)
                           THEN [ps[id] EXCEPT
                                    !.party_id = None,
                                    !.state = IF @ = "Searching" THEN "InLobby" ELSE @]
                           ELSE ps[id]],
           parties  |-> [x \in DOMAIN pts \ {party_id} |-> pts[x]],
           searches |-> srch ]

\* A disband_party that sends the searching members offline.
disband_party_offline(ps, pts, srch, party_id) ==
    IF party_id \notin DOMAIN pts
    THEN [ok |-> FALSE, players |-> ps, parties |-> pts, searches |-> srch]
    ELSE LET gone == {id \in Range(pts[party_id].player_ids) \cap DOMAIN ps :
                         ps[id].state = "Searching"}
         IN [ ok       |-> TRUE,
              players  |-> [id \in DOMAIN ps |->
                              IF id \in Range(pts[party_id].player_ids)
                              THEN [ps[id] EXCEPT
                                       !.party_id = None,
                                       !.state = IF @ = "Searching" THEN "Offline" ELSE @]
                              ELSE ps[id]],
              parties  |-> [x \in DOMAIN pts \ {party_id} |-> pts[x]],
              searches |-> SelectSeq(srch, LAMBDA so : Range(so.player_ids) \cap gone = {}) ]

\* disband_party: the party exists; then it is dropped, every member loses
\* its party id, and a member that was searching goes back to the lobby and
\* the search objects that contain it are dropped.
disband_party(ps, pts, srch, party_id) ==
    IF party_id \notin DOMAIN pts THEN PartyErr(ps, pts, srch)
    ELSE LET members == Range(pts[party_id].player_ids) \cap DOMAIN ps
             searching == {id \in members : ps[id].state = "Searching"}
             kept == {i \in 1..Len(srch) : Range(srch[i].player_ids) \cap searching = {}}
         IN [ ok       |-> TRUE,
              players  |-> [id \in DOMAIN ps |->
                              IF id \in members
                              THEN [ps[id] EXCEPT
                                       !.party_id = None,
                                       !.state = IF @ = "Searching" THEN "InLobby" ELSE @]
                              ELSE ps[id]],
              parties  |-> RemoveKey(pts, party_id),
              searches |-> [k \in 1..Cardinality(kept) |-> srch[Ascending(kept)[k]]] ]

DisbandParty ==
    \E party_id \in DOMAIN parties :
        LET r == disband_party(players, parties, searches, party_id)
        IN /\ r.ok
           /\ players' = r.players
           /\ parties' = r.parties
           /\ searches' = r.searches
           /\ UNCHANGED <<arrival_rate, current_time, data_centers, matches, config, stats,
                          next_player_id, next_search_id, next_match_id, next_party_id,
                          matches_since_percentile_update, match_results, probe>>

\* ------------------------------------------------------------------ update_config
\* update_config replaces the configuration and touches nothing else.
update_config(old, new) == new

UpdateConfig ==
    \E new \in Configs :
        /\ config' = update_config(config, new)
        /\ UNCHANGED <<arrival_rate, current_time, players, data_centers, searches, matches, stats,
                       next_player_id, next_search_id, next_match_id, next_party_id,
                       parties, matches_since_percentile_update, match_results, probe>>

\* ------------------------------------------------------------------ tick: arrivals
\* The tick phases are operators on the record st of the fields a tick
\* changes: players, searches, data_centers, matches, stats, next_search_id,
\* next_match_id, matches_since_percentile_update.
SimState ==
    [ players        |-> players,
      searches       |-> searches,
      data_centers   |-> data_centers,
      matches        |-> matches,
      stats          |-> stats,
      next_search_id |-> next_search_id,
      next_match_id  |-> next_match_id,
      matches_since_percentile_update |-> matches_since_percentile_update ]

OfflinePlayers(ps) == {id \in DOMAIN ps : ps[id].state = "Offline"}
LobbyPlayers(ps) == {id \in DOMAIN ps : ps[id].state = "InLobby"}

\* poisson_sample(lambda): with exp(-lambda) >= 1 the first product is
\* already at or below it and the sample is 0; otherwise any count can come
\* out (a count above MaxPlayers caps nothing that a count of MaxPlayers
\* does not).
poisson_sample(lambda) == IF lambda <= 0 THEN {0} ELSE 0..MaxPlayers

\* The arrivals list once it is shuffled and cut to num_arrivals.
arrivals_kept(returned, num_arrivals) ==
    {a \in SUBSET returned : Cardinality(a) = Min(Cardinality(returned), num_arrivals)}

\* The draws of process_arrivals: the offline players whose return coin came
\* up (returned) and those of them left in the arrivals list once the list
\* is cut to the Poisson sample (arrivals).
ArrivalDraws(ps, rate) ==
    UNION {{[returned |-> r, arrivals |-> a] :
               a \in UNION {arrivals_kept(r, n) : n \in poisson_sample(rate)}} :
           r \in SUBSET OfflinePlayers(ps)}

\* An arrival that keeps the session counters of the session before.
process_arrivals_resumed(st, draw, now) ==
    [Count(st, "total_returns", Cardinality(draw.returned)) EXCEPT
        !.players = [id \in DOMAIN st.players |->
            IF id \in draw.arrivals
            THEN [st.players[id] EXCEPT !.state = "InLobby"]
            ELSE st.players[id]]]

\* process_arrivals with its draws: every returned player is counted, every
\* player of the arrivals list starts a session and goes to the lobby.
process_arrivals(st, draw, now) ==
    [Count(st, "total_returns", Cardinality(draw.returned)) EXCEPT
        !.players = [id \in DOMAIN st.players |->
            IF id \in draw.arrivals
            THEN [st.players[id] EXCEPT !.state = "InLobby",
                                        !.session_start_time = Some(now),
                                        !.matches_in_session = 0,
                                        !.last_session_end_time = None]
            ELSE st.players[id]]]

\* ------------------------------------------------------------------ tick: search starts
\* Player::acceptable_dcs: the data centers whose ping is within the delta
\* allowed after wait_time seconds and within max_ping, and whose region is
\* in the tier the wait has reached.
\* acceptable_dcs that never leaves the player's own region.
acceptable_dcs_own(player, wait_time, cfg, dcs) ==
    {dc_id \in DOMAIN player.dc_pings :
        /\ player.dc_pings[dc_id] <= player.best_ping + region_delta_ping_backoff(cfg, player.region, wait_time)
        /\ player.dc_pings[dc_id] <= get_region_max_ping(cfg, player.region)
        /\ dc_id \in DOMAIN dcs
        /\ dcs[dc_id].region = player.region}

acceptable_dcs(player, wait_time, cfg, dcs) ==
    LET delta_ping_allowed == region_delta_ping_backoff(cfg, player.region, wait_time)
        max_ping == get_region_max_ping(cfg, player.region)
        acceptable_regions ==
            IF wait_time < 10 THEN {player.region}
            ELSE IF wait_time < 30 THEN {player.region} \cup adjacent_regions(player.region)
            ELSE Regions
    IN {dc_id \in DOMAIN player.dc_pings :
            /\ player.dc_pings[dc_id] <= player.best_ping + delta_ping_allowed
            /\ player.dc_pings[dc_id] <= max_ping
            /\ dc_id \in DOMAIN dcs
            /\ dcs[dc_id].region \in acceptable_regions}

\* The intersection of a non-empty sequence of sets; {} for the empty one.
RECURSIVE IntersectAll(_)
IntersectAll(sets) ==
    IF sets = <<>> THEN {}
    ELSE IF Len(sets) = 1 THEN sets[1]
    ELSE sets[1] \cap IntersectAll(Tail(sets))

\* Party::to_search_object: the party's aggregates as they stand, and the
\* intersection of the members' acceptable data centers at wait 0.
to_search_object(party, search_id, search_start_time, ps, cfg, dcs) ==
    LET known == Filter(party.player_ids, DOMAIN ps)
    IN [ id                   |-> search_id,
         player_ids           |-> party.player_ids,
         avg_skill_percentile |-> party.avg_skill_percentile,
         skill_disparity      |-> party.skill_percentile_disparity,
         avg_location         |-> party.avg_location,
         platforms            |-> party.platforms,
         input_devices        |-> party.input_devices,
         acceptable_playlists |-> party.preferred_playlists,
         search_start_time    |-> search_start_time,
         acceptable_dcs       |->
             IntersectAll([i \in 1..Len(known) |-> acceptable_dcs(ps[known[i]], 0, cfg, dcs)]) ]

\* The search object start_search builds for a solo player.
SoloSearchObject(player, search_id, now, cfg, dcs) ==
    [ id                   |-> search_id,
      player_ids           |-> <<player.id>>,
      avg_skill_percentile |-> player.skill_percentile,
      skill_disparity      |-> 0,
      avg_location         |-> SitePosition(player.location),
      platforms            |-> [pf \in Platforms |-> IF pf = player.platform THEN 1 ELSE 0],
      input_devices        |-> [dv \in InputDevices |-> IF dv = player.input_device THEN 1 ELSE 0],
      acceptable_playlists |-> player.preferred_playlists,
      search_start_time    |-> now,
      acceptable_dcs       |-> acceptable_dcs(player, 0, cfg, dcs) ]

\* A start_search in which any member starts the party's search.
start_search_by_member(st, player_id, pts, cfg, now) ==
    LET ps == st.players
        party == pts[Unwrap(ps[player_id].party_id)]
        ps2 == [id \in DOMAIN ps |->
                  IF id \in Range(party.player_ids)
                  THEN [ps[id] EXCEPT !.state = "Searching", !.search_start_time = Some(now)]
                  ELSE ps[id]]
    IN IF IsSome(ps[player_id].party_id) /\ Unwrap(ps[player_id].party_id) \in DOMAIN pts
       THEN [st EXCEPT
                !.players = ps2,
                !.searches = Append(@, to_search_object(party, st.next_search_id, now,
                                                        ps2, cfg, st.data_centers)),
                !.next_search_id = @ + 1]
       ELSE [st EXCEPT
                !.players = [ps EXCEPT ![player_id].state = "Searching",
                                       ![player_id].search_start_time = Some(now)],
                !.searches = Append(@, SoloSearchObject(ps[player_id], st.next_search_id, now,
                                                        cfg, st.data_centers)),
                !.next_search_id = @ + 1]

\* start_search(player_id): a party member searches only as the leader and
\* only when every member is in the lobby, and then the whole party
\* searches; any other player searches alone.
start_search(st, player_id, pts, cfg, now) ==
    LET ps == st.players
        player == ps[player_id]
        party == pts[Unwrap(player.party_id)]
        Searching(p) == [p EXCEPT !.state = "Searching", !.search_start_time = Some(now)]
    IN IF player_id \notin DOMAIN ps THEN st
       ELSE IF IsSome(player.party_id) /\ Unwrap(player.party_id) \in DOMAIN pts
       THEN IF party.leader_id # player_id THEN st
            ELSE IF ~(\A i \in 1..Len(party.player_ids) :
                        /\ party.player_ids[i] \in DOMAIN ps
                        /\ ps[party.player_ids[i]].state = "InLobby") THEN st
            ELSE LET ps2 == [id \in DOMAIN ps |->
                               IF id \in Range(party.player_ids) THEN Searching(ps[id])
                               ELSE ps[id]]
                 IN [st EXCEPT
                        !.players = ps2,
                        !.searches = Append(@, to_search_object(party, st.next_search_id, now,
                                                                ps2, cfg, st.data_centers)),
                        !.next_search_id = @ + 1]
       ELSE [st EXCEPT
                !.players = [ps EXCEPT ![player_id] = Searching(player)],
                !.searches = Append(@, SoloSearchObject(player, st.next_search_id, now, cfg,
                                                        st.data_centers)),
                !.next_search_id = @ + 1]

\* start_search for the players of the sequence starters, in order.
RECURSIVE StartSearches(_, _, _, _, _)
StartSearches(st, starters, pts, cfg, now) ==
    IF starters = <<>> THEN st
    ELSE StartSearches(start_search(st, starters[1], pts, cfg, now), Tail(starters),
                       pts, cfg, now)

\* process_search_starts with its random draws: order is the order in which
\* the HashMap yields the lobby players, coins[i] the i-th gen_bool(0.3).
process_search_starts(st, order, coins, pts, cfg, now) ==
    LET chosen == {i \in 1..Len(order) : coins[i]}
    IN StartSearches(st, [k \in 1..Cardinality(chosen) |-> order[Ascending(chosen)[k]]],
                     pts, cfg, now)

\* ------------------------------------------------------------------ matchmaker
wait_time(search, now, cfg) == (now - search.search_start_time) * cfg.tick_interval

input_device_mixed(a, b) ==
    \/ a.input_devices["MouseKeyboard"] > 0 /\ b.input_devices["Controller"] > 0
    \/ a.input_devices["Controller"] > 0 /\ b.input_devices["MouseKeyboard"] > 0

platforms_disjoint(a, b) ==
    ~\E pf \in Platforms : a.platforms[pf] > 0 /\ b.platforms[pf] > 0

\* calculate_distance times 36,000,000: the weights are in percent, the
\* geographic term is km / 20000, the skill term the percentile difference,
\* the input term 0.5 for mixed input devices, the platform term 0.3 for
\* disjoint platforms.
calculate_distance(cfg, a, b) ==
      cfg.weight_geo * distance_km2(a.avg_location, b.avg_location) * 9
    + cfg.weight_skill * Abs(a.avg_skill_percentile - b.avg_skill_percentile) * 50
    + cfg.weight_input * (IF input_device_mixed(a, b) THEN 180000 ELSE 0)
    + cfg.weight_platform * (IF platforms_disjoint(a, b) THEN 108000 ELSE 0)

LobbySize(lobby) == SeqSum([i \in 1..Len(lobby) |-> Len(lobby[i].player_ids)])

\* The checks of check_feasibility before the data center is chosen.
PlaylistCompatible(lobby, playlist) ==
    \A i \in 1..Len(lobby) : playlist \in lobby[i].acceptable_playlists

pi_min(lobby) == SetMin({lobby[i].avg_skill_percentile : i \in 1..Len(lobby)})
pi_max(lobby) == SetMax({lobby[i].avg_skill_percentile : i \in 1..Len(lobby)})

\* A containment check that every lobby passes.
SkillContained_skipped(lobby, now, cfg) == TRUE

SkillContained(lobby, now, cfg) ==
    \A i \in 1..Len(lobby) :
        LET f_skill == skill_similarity_backoff(cfg, wait_time(lobby[i], now, cfg))
        IN /\ pi_min(lobby) >= lobby[i].avg_skill_percentile - f_skill
           /\ pi_max(lobby) <= lobby[i].avg_skill_percentile + f_skill

max_disparity_allowed(lobby, now, cfg) ==
    SetMin({skill_disparity_backoff(cfg, wait_time(lobby[i], now, cfg)) : i \in 1..Len(lobby)})

\* Every data center counts as common to the lobby.
common_dcs_any(lobby) == DCIds

common_dcs(lobby) == IntersectAll([i \in 1..Len(lobby) |-> lobby[i].acceptable_dcs])

\* The regions max_by_key can return as the most common region of the
\* lobby's players: with several regions at the maximum, the one the HashMap
\* yields last.
PrimaryRegions(lobby, ps) ==
    LET ids == Flatten([i \in 1..Len(lobby) |-> Filter(lobby[i].player_ids, DOMAIN ps)])
        count(r) == Cardinality({k \in 1..Len(ids) : ps[ids[k]].region = r})
    IN IF ids = <<>> THEN {"Other"}
       ELSE {r \in Regions : count(r) > 0 /\ \A r2 \in Regions : count(r2) <= count(r)}

\* The data centers the priority search can return for a primary region:
\* the ones with a free server in the first tier (primary region, adjacent
\* regions, others) that has one; within a tier, the order is the HashSet's.
AvailableDCs(common, primary_region, playlist, dcs) ==
    LET free == {d \in common : d \in DOMAIN dcs /\ available_servers(dcs[d], playlist) > 0}
        first == {d \in free : dcs[d].region = primary_region}
        second == {d \in free : dcs[d].region \in adjacent_regions(primary_region)} \ first
    IN IF first # {} THEN first ELSE IF second # {} THEN second ELSE free

\* check_feasibility: the results the call can return for the lobby (a
\* sequence of search objects); the empty set stands for None.
check_feasibility(cfg, lobby, playlist, now, dcs, ps) ==
    IF /\ PlaylistCompatible(lobby, playlist)
       /\ LobbySize(lobby) <= required_players(playlist)
       /\ SkillContained(lobby, now, cfg)
       /\ pi_max(lobby) - pi_min(lobby) <= max_disparity_allowed(lobby, now, cfg)
       /\ common_dcs(lobby) # {}
    THEN {[data_center_id |-> d, skill_disparity |-> pi_max(lobby) - pi_min(lobby)] :
            d \in UNION {AvailableDCs(common_dcs(lobby), r, playlist, dcs) :
                            r \in PrimaryRegions(lobby, ps)}}
    ELSE {}

\* ------------------------------------------------------------------ team balancing
\* A stable sort of a sequence of records by their field key, ascending.
RemoveAt(seq, i) == SubSeq(seq, 1, i - 1) \o SubSeq(seq, i + 1, Len(seq))

RECURSIVE StableSort(_)
StableSort(pairs) ==
    IF pairs = <<>> THEN <<>>
    ELSE LET m == SetMin({pairs[i].key : i \in 1..Len(pairs)})
             i == SetMin({k \in 1..Len(pairs) : pairs[k].key = m})
         IN <<pairs[i]>> \o StableSort(RemoveAt(pairs, i))

\* The party entries of balance_teams in the order order of their keys.  A
\* key is the party id as an Option: every solo player has the key None.  An
\* entry is the key, its members in lobby order, its skill (the party's
\* stored avg_skill; for the key None the skill of the first member) and size.
PartyKey(ps, id) == IF id \in DOMAIN ps THEN ps[id].party_id ELSE None

PartyKeys(player_ids, ps) == {PartyKey(ps, player_ids[i]) : i \in 1..Len(player_ids)}

PartyEntry(key, player_ids, ps, pts) ==
    LET idx == {i \in 1..Len(player_ids) : PartyKey(ps, player_ids[i]) = key}
        member_ids == [k \in 1..Cardinality(idx) |-> player_ids[Ascending(idx)[k]]]
        known == Filter(member_ids, DOMAIN ps)
    IN [ party_id   |-> key,
         member_ids |-> member_ids,
         avg_skill  |->
             IF IsSome(key)
             THEN IF Unwrap(key) \in DOMAIN pts THEN pts[Unwrap(key)].avg_skill
                  ELSE SeqSum([k \in 1..Len(known) |-> ps[known[k]].skill]) \div Len(member_ids)
             ELSE IF member_ids[1] \in DOMAIN ps THEN ps[member_ids[1]].skill ELSE 0,
         size       |-> Len(member_ids) ]

EntryMembers(entries, indices) ==
    Flatten([i \in 1..Len(entries) |-> IF i \in indices THEN entries[i].member_ids ELSE <<>>])

EntrySkill(entries, indices) ==
    SeqSum([i \in 1..Len(entries) |->
               IF i \in indices THEN entries[i].avg_skill * entries[i].size ELSE 0])

\* best is [diff, partition]; diff = -1 stands for f64::MAX and partition is
\* an Option.
Improves(diff, best) == best.diff = 0 - 1 \/ diff < best.diff

\* exact_partition_recursive: the depth-first search over the entries from
\* index idx, with the entries of team1 chosen so far.
RECURSIVE exact_partition_recursive(_, _, _, _, _, _, _)
exact_partition_recursive(entries, target_team_size, idx, team1, team1_size, team1_skill, best) ==
    LET n == Len(entries)
    IN IF idx > n
       THEN IF team1_size = target_team_size
            THEN LET diff == Abs(team1_skill - EntrySkill(entries, (1..n) \ team1))
                 IN IF Improves(diff, best)
                    THEN [diff |-> diff,
                          partition |-> Some(<<EntryMembers(entries, team1),
                                               EntryMembers(entries, (1..n) \ team1)>>)]
                    ELSE best
            ELSE best
       ELSE LET e == entries[idx]
                with == team1 \cup {idx}
                with_skill == team1_skill + e.avg_skill * e.size
                current_diff ==
                    Abs(with_skill - EntrySkill(entries, ((idx + 1)..n) \ with))
                best1 ==
                    IF team1_size + e.size <= target_team_size /\ Improves(current_diff, best)
                    THEN exact_partition_recursive(entries, target_team_size, idx + 1, with,
                                                   team1_size + e.size, with_skill, best)
                    ELSE best
            IN IF team1_size < target_team_size
               THEN exact_partition_recursive(entries, target_team_size, idx + 1, team1,
                                              team1_size, team1_skill, best1)
               ELSE best1

\* exact_partition_teams: Some(teams) or None.
exact_partition_teams(entries, required) ==
    IF SeqSum([i \in 1..Len(entries) |-> entries[i].size]) # required THEN None
    ELSE exact_partition_recursive(entries, required \div 2, 1, {}, 0, 0,
                                   [diff |-> 0 - 1, partition |-> None]).partition

\* The snake draft: the entries by descending skill, each whole entry to the
\* team the draft is at.
RECURSIVE SnakeDraft(_, _, _, _)
SnakeDraft(sorted, teams, team_idx, forward) ==
    IF sorted = <<>> THEN teams
    ELSE LET last == Len(teams)
             placed == [teams EXCEPT ![team_idx] = @ \o sorted[1].member_ids]
         IN IF forward
            THEN SnakeDraft(Tail(sorted), placed,
                            IF team_idx = last THEN team_idx ELSE team_idx + 1,
                            team_idx # last)
            ELSE SnakeDraft(Tail(sorted), placed,
                            IF team_idx = 1 THEN team_idx ELSE team_idx - 1,
                            team_idx = 1)

\* balance_teams with the party entries in the order the HashMap yields them.
balance_teams_in_order(entries, playlist, cfg) ==
    LET exact == exact_partition_teams(entries, required_players(playlist))
        is_small_playlist ==
            required_players(playlist) <= 2 * TeamSize /\ team_count(playlist) = 2
        by_skill == StableSort([i \in 1..Len(entries) |->
                                   [key |-> 0 - entries[i].avg_skill, val |-> entries[i]]])
    IN IF is_small_playlist /\ cfg.use_exact_team_balancing /\ IsSome(exact)
       THEN Unwrap(exact)
       ELSE SnakeDraft([i \in 1..Len(by_skill) |-> by_skill[i].val],
                       [t \in 1..team_count(playlist) |-> <<>>], 1, TRUE)

\* Every player a team of its own, whatever the playlist.
balance_teams_split(player_ids, ps, pts, playlist, cfg) ==
    {[i \in 1..Len(player_ids) |-> <<player_ids[i]>>]}

\* balance_teams: the team lists the call can return.
balance_teams(player_ids, ps, pts, playlist, cfg) ==
    IF team_count(playlist) = Len(player_ids)
    THEN {[i \in 1..Len(player_ids) |-> <<player_ids[i]>>]}
    ELSE {balance_teams_in_order([k \in 1..Len(order) |->
                                     PartyEntry(order[k], player_ids, ps, pts)],
                                 playlist, cfg) :
             order \in Perms(PartyKeys(player_ids, ps))}

\* ------------------------------------------------------------------ run_tick
\* The refresh at the head of run_tick: a search's acceptable data centers
\* become the running intersection over its players at the current wait,
\* where an empty running set is replaced by the next player's set.
RECURSIVE RefreshFold(_, _)
RefreshFold(acceptable, sets) ==
    IF sets = <<>> THEN acceptable
    ELSE RefreshFold(IF acceptable = {} THEN sets[1] ELSE acceptable \cap sets[1], Tail(sets))

RefreshSearch(search, ps, cfg, dcs, now) ==
    LET known == Filter(search.player_ids, DOMAIN ps)
    IN [search EXCEPT !.acceptable_dcs =
           RefreshFold({}, [i \in 1..Len(known) |->
               acceptable_dcs(ps[known[i]], wait_time(search, now, cfg), cfg, dcs)])]

\* An order by descending wait time that puts the later of two searches of
\* equal wait first.
search_order_last_first(srch, now, cfg) ==
    LET sorted == StableSort([i \in 1..Len(srch) |->
                     [key |-> 0 - (wait_time(srch[i], now, cfg) * (Len(srch) + 1) + i),
                      val |-> i]])
    IN [i \in 1..Len(sorted) |-> sorted[i].val]

\* The indices of the searches by descending wait time (stable).
search_order(srch, now, cfg) ==
    LET sorted == StableSort([i \in 1..Len(srch) |->
                                 [key |-> 0 - wait_time(srch[i], now, cfg), val |-> i]])
    IN [i \in 1..Len(sorted) |-> sorted[i].val]

\* The candidates of a seed: the other unmatched searches of the playlist by
\* ascending distance from the seed (stable), cut to top_k_candidates.
Candidates(mm, seed_idx, playlist_searches, cfg) ==
    LET others == {k \in 1..Len(playlist_searches) :
                      /\ playlist_searches[k] # seed_idx
                      /\ mm.searches[playlist_searches[k]].id \notin mm.matched}
        sorted == StableSort([k \in 1..Cardinality(others) |->
                     LET idx == playlist_searches[Ascending(others)[k]]
                     IN [key |-> calculate_distance(cfg, mm.searches[seed_idx], mm.searches[idx]),
                         val |-> idx]])
    IN [k \in 1..Min(Len(sorted), cfg.top_k_candidates) |-> sorted[k].val]

\* The greedy lobby construction: a candidate that fits and keeps the lobby
\* feasible joins it.
RECURSIVE GreedyLobby(_, _, _, _, _, _, _)
GreedyLobby(mm, lobby_indices, cands, playlist, cfg, now, ps) ==
    LET size == SeqSum([i \in 1..Len(lobby_indices) |->
                           Len(mm.searches[lobby_indices[i]].player_ids)])
        cand == mm.searches[cands[1]]
        with == Append(lobby_indices, cands[1])
    IN IF cands = <<>> \/ size >= required_players(playlist) THEN lobby_indices
       ELSE IF size + Len(cand.player_ids) > required_players(playlist)
       THEN GreedyLobby(mm, lobby_indices, Tail(cands), playlist, cfg, now, ps)
       ELSE IF check_feasibility(cfg, [i \in 1..Len(with) |-> mm.searches[with[i]]],
                                 playlist, now, mm.data_centers, ps) # {}
       THEN GreedyLobby(mm, with, Tail(cands), playlist, cfg, now, ps)
       ELSE GreedyLobby(mm, lobby_indices, Tail(cands), playlist, cfg, now, ps)

\* The MatchResult of a committed lobby.  The fields lobby and dcs_at_commit
\* are not in the source's MatchResult: they keep the search objects and the
\* data centers the final feasibility check saw.
MatchResult(lobby, teams, playlist, feasibility, dcs, ps, cfg, now) ==
    LET all_players == Flatten([i \in 1..Len(lobby) |-> lobby[i].player_ids])
    IN [ player_ids      |-> all_players,
         teams           |-> teams,
         playlist        |-> playlist,
         data_center_id  |-> feasibility.data_center_id,
         skill_disparity |-> feasibility.skill_disparity,
         search_times    |-> [i \in 1..Len(lobby) |-> wait_time(lobby[i], now, cfg)],
         is_cross_region |->
             Cardinality({ps[id].region : id \in Range(all_players) \cap DOMAIN ps}) > 1,
         lobby           |-> lobby,
         dcs_at_commit   |-> dcs ]

\* One seed of run_tick: the states the matchmaker can be in afterwards.  mm
\* is [searches, matched, data_centers, results].
RunSeed(mm, seed_idx, playlist_searches, playlist, cfg, now, ps, pts) ==
    IF mm.searches[seed_idx].id \in mm.matched THEN {mm}
    ELSE LET lobby_indices ==
                 GreedyLobby(mm, <<seed_idx>>,
                             Candidates(mm, seed_idx, playlist_searches, cfg),
                             playlist, cfg, now, ps)
             lobby == [i \in 1..Len(lobby_indices) |-> mm.searches[lobby_indices[i]]]
             feasible == check_feasibility(cfg, lobby, playlist, now, mm.data_centers, ps)
         IN IF LobbySize(lobby) # required_players(playlist) \/ feasible = {} THEN {mm}
            ELSE {[mm EXCEPT
                     !.matched = @ \cup {lobby[i].id : i \in 1..Len(lobby)},
                     !.data_centers[f.data_center_id].busy_servers[playlist] = @ + 1,
                     !.results = Append(@, MatchResult(lobby, teams, playlist, f,
                                                       mm.data_centers, ps, cfg, now))] :
                    f \in feasible,
                    teams \in balance_teams(Flatten([i \in 1..Len(lobby) |-> lobby[i].player_ids]),
                                            ps, pts, playlist, cfg)}

RECURSIVE RunSeeds(_, _, _, _, _, _, _, _)
RunSeeds(mm, k, playlist_searches, playlist, cfg, now, ps, pts) ==
    IF k > Len(playlist_searches) THEN {mm}
    ELSE UNION {RunSeeds(mm2, k + 1, playlist_searches, playlist, cfg, now, ps, pts) :
                   mm2 \in RunSeed(mm, playlist_searches[k], playlist_searches,
                                   playlist, cfg, now, ps, pts)}

\* The playlists from the j-th on.
RECURSIVE RunPlaylists(_, _, _, _, _, _, _)
RunPlaylists(mm, j, order, cfg, now, ps, pts) ==
    IF j > Len(PlaylistOrder) THEN {mm}
    ELSE LET playlist == PlaylistOrder[j]
             playlist_searches ==
                 Filter(order, {idx \in 1..Len(mm.searches) :
                                   /\ mm.searches[idx].id \notin mm.matched
                                   /\ playlist \in mm.searches[idx].acceptable_playlists})
         IN UNION {RunPlaylists(mm2, j + 1, order, cfg, now, ps, pts) :
                      mm2 \in RunSeeds(mm, 1, playlist_searches, playlist, cfg, now, ps, pts)}

\* A run_tick that hands the queue back in the order of its seeds.
run_tick_sorted(cfg, srch, ps, dcs, pts, now) ==
    LET refreshed == [i \in 1..Len(srch) |-> RefreshSearch(srch[i], ps, cfg, dcs, now)]
        mm0 == [searches |-> refreshed, matched |-> {}, data_centers |-> dcs, results |-> <<>>]
    IN {[ searches     |->
              LET left == Filter(search_order(refreshed, now, cfg),
                                 {i \in 1..Len(refreshed) : refreshed[i].id \notin mm.matched})
              IN [k \in 1..Len(left) |-> refreshed[left[k]]],
          data_centers |-> mm.data_centers,
          results      |-> mm.results ] :
           mm \in RunPlaylists(mm0, 1, search_order(refreshed, now, cfg), cfg, now, ps, pts)}

\* run_tick: the outcomes [searches, data_centers, results] of one
\* matchmaking pass.
run_tick(cfg, srch, ps, dcs, pts, now) ==
    LET refreshed == [i \in 1..Len(srch) |-> RefreshSearch(srch[i], ps, cfg, dcs, now)]
        mm0 == [searches |-> refreshed, matched |-> {}, data_centers |-> dcs, results |-> <<>>]
    IN {[ searches     |->
              LET left == {i \in 1..Len(refreshed) : refreshed[i].id \notin mm.matched}
              IN [k \in 1..Cardinality(left) |-> refreshed[Ascending(left)[k]]],
          data_centers |-> mm.data_centers,
          results      |-> mm.results ] :
           mm \in RunPlaylists(mm0, 1, search_order(refreshed, now, cfg), cfg, now, ps, pts)}

\* ------------------------------------------------------------------ tick: create_matches
\* The values ((base * U(0.8, 1.2)) / tick_interval) as u64 can take.
DurationTicks(playlist, cfg) ==
    ((8 * avg_match_duration_seconds(playlist)) \div (10 * cfg.tick_interval))
        .. ((12 * avg_match_duration_seconds(playlist) - 1) \div (10 * cfg.tick_interval))

\* The mean skill of every team, in units of 1 / TeamSkillScale of a skill
\* step (the scale divides by every team size the playlists have).
team_skills(ps, teams) ==
    [t \in DOMAIN teams |->
        IF teams[t] = <<>> THEN 0
        ELSE (TeamSkillScale * SeqSum([i \in DOMAIN teams[t] |->
                 IF teams[t][i] \in DOMAIN ps THEN ps[teams[t][i]].skill ELSE 0]))
             \div Len(teams[t])]

\* A create_match that stamps the match with the tick after this one.
create_match_late(st, result, duration_ticks, now) ==
    LET match_id == st.next_match_id
        game_match == [ id                |-> match_id,
                        playlist          |-> result.playlist,
                        data_center_id    |-> result.data_center_id,
                        teams             |-> result.teams,
                        start_time        |-> now + 1,
                        expected_duration |-> duration_ticks,
                        team_skills       |-> team_skills(st.players, result.teams),
                        skill_disparity   |-> result.skill_disparity ]
    IN [st EXCEPT
          !.next_match_id = @ + 1,
          !.players = [id \in DOMAIN st.players |->
              IF id \in Range(result.player_ids)
              THEN [st.players[id] EXCEPT !.state = "InMatch",
                                          !.current_match = Some(match_id),
                                          !.search_start_time = None]
              ELSE st.players[id]],
          !.matches = (match_id :> game_match) @@ @,
          !.stats.total_matches = @ + 1]

\* create_matches for one result with the drawn duration.
create_match(st, result, duration_ticks, now) ==
    LET match_id == st.next_match_id
        game_match == [ id                |-> match_id,
                        playlist          |-> result.playlist,
                        data_center_id    |-> result.data_center_id,
                        teams             |-> result.teams,
                        start_time        |-> now,
                        expected_duration |-> duration_ticks,
                        team_skills       |-> team_skills(st.players, result.teams),
                        skill_disparity   |-> result.skill_disparity ]
    IN [st EXCEPT
          !.next_match_id = @ + 1,
          !.players = [id \in DOMAIN st.players |->
              IF id \in Range(result.player_ids)
              THEN [st.players[id] EXCEPT !.state = "InMatch",
                                          !.current_match = Some(match_id),
                                          !.search_start_time = None]
              ELSE st.players[id]],
          !.matches = (match_id :> game_match) @@ @,
          !.stats.total_matches = @ + 1]

\* create_matches: the states after the results from the k-th on, one
\* duration draw each.
RECURSIVE create_matches(_, _, _, _, _)
create_matches(st, results, k, cfg, now) ==
    IF k > Len(results) THEN {st}
    ELSE UNION {create_matches(create_match(st, results[k], d, now), results, k + 1, cfg, now) :
                   d \in DurationTicks(results[k].playlist, cfg)}

\* ------------------------------------------------------------------ tick: completions
\* What one skill update can add to a skill (learning rate times the gap
\* between observed and expected performance), on SkillScale.
SkillUpdates == {0, 60}

\* The skill updates of a completed match, roster position by position.
RECURSIVE EvolveSkills(_, _)
EvolveSkills(ps, roster) ==
    IF roster = <<>> THEN {ps}
    ELSE IF roster[1] \notin DOMAIN ps THEN EvolveSkills(ps, Tail(roster))
    ELSE UNION {EvolveSkills([ps EXCEPT ![roster[1]].skill =
                                  Clamp(@ + u, 0 - SkillScale, SkillScale)], Tail(roster)) :
                   u \in SkillUpdates}

\* Decisions that send the roster to the lobby and leave current_match set.
DecideContinue_uncleared(st, roster, experience, cfg, now) ==
    {[st EXCEPT !.players = [id \in DOMAIN @ |->
        IF id \in Range(roster) THEN [@[id] EXCEPT !.state = "InLobby"] ELSE @[id]]]}

\* session_length_distribution with its entry for session_length counted up,
\* the vector extended with zeros up to that index first (index i of the
\* vector is element i + 1 of the sequence).
RecordSession(distribution, session_length) ==
    LET extended == [i \in 1..Max(Len(distribution), session_length + 1) |->
                        IF i <= Len(distribution) THEN distribution[i] ELSE 0]
    IN [extended EXCEPT ![session_length + 1] = @ + 1]

\* Decisions that neither trim the experience window nor empty it on a quit.
RECURSIVE DecideContinue_unwindowed(_, _, _, _, _)
DecideContinue_unwindowed(st, roster, experience, cfg, now) ==
    IF roster = <<>> THEN {st}
    ELSE IF roster[1] \notin DOMAIN st.players
         THEN DecideContinue_unwindowed(st, Tail(roster), experience, cfg, now)
    ELSE LET id == roster[1]
             player == st.players[id]
             pushed == Append(player.recent_experience, experience)
             continues ==
                 [st EXCEPT !.players[id] =
                     [player EXCEPT !.current_match = None,
                                    !.recent_experience = pushed,
                                    !.state = "InLobby",
                                    !.matches_in_session = @ + 1]]
             quits ==
                 [st EXCEPT !.players[id] =
                     [player EXCEPT !.current_match = None,
                                    !.recent_experience = pushed,
                                    !.last_session_experience = pushed,
                                    !.last_session_end_time = Some(now),
                                    !.state = "Offline"]]
         IN UNION {DecideContinue_unwindowed(next, Tail(roster), experience, cfg, now) :
                      next \in {continues, quits}}

\* The continue-or-quit decisions of a completed match, roster position by
\* position: the match is cleared and the player goes to the lobby or offline.
RECURSIVE DecideContinue(_, _, _, _, _)
DecideContinue(st, roster, experience, cfg, now) ==
    IF roster = <<>> THEN {st}
    ELSE IF roster[1] \notin DOMAIN st.players
         THEN DecideContinue(st, Tail(roster), experience, cfg, now)
    ELSE LET id == roster[1]
             player == st.players[id]
             matches_in_session == player.matches_in_session
             pushed == Append(player.recent_experience, experience)
             window == IF Len(pushed) > cfg.experience_window_size
                       THEN Tail(pushed) ELSE pushed
             continues ==
                 [st EXCEPT !.players[id] =
                     [player EXCEPT !.current_match = None,
                                    !.recent_experience = window,
                                    !.state = "InLobby",
                                    !.matches_in_session = @ + 1]]
             left == [player EXCEPT !.current_match = None,
                                    !.last_session_experience = window,
                                    !.last_session_end_time = Some(now),
                                    !.recent_experience = <<>>,
                                    !.state = "Offline"]
             quits ==
                 IF matches_in_session > 0
                 THEN [st EXCEPT
                         !.players[id] = [left EXCEPT !.session_start_time = None,
                                                      !.matches_in_session = 0],
                         !.stats.total_sessions_completed = @ + 1,
                         !.stats.session_length_distribution =
                             RecordSession(@, matches_in_session)]
                 ELSE [st EXCEPT !.players[id] = left]
         IN UNION {DecideContinue(next, Tail(roster), experience, cfg, now) :
                      next \in {continues, quits}}

\* determine_outcome's is_blowout: a coin of probability
\* blowout_skill_coefficient * min(|skill_diff| / 2, 1)
\*   + blowout_imbalance_coefficient * win_probability_imbalance,
\* which is 0 when the first two teams have the same mean skill and strictly
\* between 0 and 1 otherwise (coefficients 0.4 and 0.3).
determine_outcome(game_match) ==
    IF Len(game_match.team_skills) < 2 THEN {FALSE}
    ELSE IF game_match.team_skills[1] = game_match.team_skills[2] THEN {FALSE}
    ELSE BOOLEAN

\* A snapshot history that never drops an entry.
record_skill_distribution_snapshot_kept(st, cfg, now) ==
    IF ~cfg.enable_skill_evolution THEN st
    ELSE [st EXCEPT !.stats.skill_distribution_over_time =
             Append(@, [ time    |-> now,
                         buckets |-> {st.players[id].skill_bucket : id \in DOMAIN st.players} ])]

\* record_skill_distribution_snapshot: the tick and the occupied buckets go
\* to the history, which drops its oldest entry beyond SnapshotLimit.
record_skill_distribution_snapshot(st, cfg, now) ==
    IF ~cfg.enable_skill_evolution THEN st
    ELSE LET snapshot == [ time    |-> now,
                           buckets |-> {st.players[id].skill_bucket : id \in DOMAIN st.players} ]
             pushed == Append(st.stats.skill_distribution_over_time, snapshot)
         IN [st EXCEPT !.stats.skill_distribution_over_time =
                IF Len(pushed) > SnapshotLimit THEN Tail(pushed) ELSE pushed]

\* A completion that keeps the match's server reserved.
complete_match_unreleased(st, match_id, cfg, now) ==
    DecideContinue([st EXCEPT !.matches = RemoveKey(@, match_id)],
                   Flatten(st.matches[match_id].teams), match_id, cfg, now)

\* The completion of one match: server release, outcome, skill evolution and
\* batched re-rank, then the players' decisions.
complete_match(st, match_id, cfg, now) ==
    LET game_match == st.matches[match_id]
        roster == Flatten(game_match.teams)
        released == [st EXCEPT
            !.matches = RemoveKey(@, match_id),
            !.data_centers = [d \in DOMAIN @ |->
                IF d = game_match.data_center_id
                THEN [@[d] EXCEPT !.busy_servers[game_match.playlist] = Max(@ - 1, 0)]
                ELSE @[d]]]
        decided == {Count(released, "blowout_count", IF is_blowout THEN 1 ELSE 0) :
                       is_blowout \in determine_outcome(game_match)}
        evolved ==
            IF ~cfg.enable_skill_evolution THEN decided
            ELSE UNION {UNION {
                IF d.matches_since_percentile_update + 1 >= cfg.skill_update_batch_size
                THEN {record_skill_distribution_snapshot(
                          [d EXCEPT
                              !.players = update_skill_percentiles(ps, q, cfg.num_skill_buckets),
                              !.matches_since_percentile_update = 0], cfg, now) :
                      q \in SkillOrders(ps)}
                ELSE {[d EXCEPT !.players = ps,
                                !.matches_since_percentile_update = @ + 1]} :
                ps \in EvolveSkills(d.players, roster)} : d \in decided}
    IN UNION {DecideContinue(e, roster, match_id, cfg, now) : e \in evolved}

RECURSIVE complete_matches(_, _, _, _)
complete_matches(st, order, cfg, now) ==
    IF order = <<>> THEN {st}
    ELSE UNION {complete_matches(st2, Tail(order), cfg, now) :
                   st2 \in complete_match(st, order[1], cfg, now)}

\* Completions that wait one tick more than the expected duration.
process_match_completions_late(st, cfg, now) ==
    LET completed == {id \in DOMAIN st.matches :
                         now > st.matches[id].start_time + st.matches[id].expected_duration}
    IN UNION {complete_matches(st, order, cfg, now) : order \in Perms(completed)}

\* process_match_completions: the matches whose duration has elapsed
\* complete, in the order the HashMap yields them.
process_match_completions(st, cfg, now) ==
    LET completed == {id \in DOMAIN st.matches :
                         now >= st.matches[id].start_time + st.matches[id].expected_duration}
    IN UNION {complete_matches(st, order, cfg, now) : order \in Perms(completed)}

\* ------------------------------------------------------------------ tick: update_stats
CountState(ps, state) == Cardinality({id \in DOMAIN ps : ps[id].state = state})

\* Statistics that leave the searching players out of the count.
update_stats_unsearched(st, now) ==
    [st EXCEPT !.stats.ticks = now,
               !.stats.players_offline = CountState(st.players, "Offline"),
               !.stats.players_in_lobby = CountState(st.players, "InLobby"),
               !.stats.players_in_match = CountState(st.players, "InMatch"),
               !.stats.active_matches = Cardinality(DOMAIN st.matches)]

\* blowout_rate = blowout_count / total_matches, kept as the fraction, when
\* there is a match to divide by.
BlowoutRate(counters) ==
    IF "blowout_rate" \in DOMAIN counters /\ counters.total_matches > 0
    THEN [counters EXCEPT !.blowout_rate = [num |-> counters.blowout_count,
                                            den |-> counters.total_matches]]
    ELSE counters

update_stats(st, now) ==
    [st EXCEPT !.stats = BlowoutRate(
        [@ EXCEPT !.ticks = now,
                  !.players_offline = CountState(st.players, "Offline"),
                  !.players_in_lobby = CountState(st.players, "InLobby"),
                  !.players_searching = CountState(st.players, "Searching"),
                  !.players_in_match = CountState(st.players, "InMatch"),
                  !.active_matches = Cardinality(DOMAIN st.matches)])]

\* ------------------------------------------------------------------ tick
\* tick: arrivals, search starts, matchmaking, match creation, completions,
\* statistics, then the clock.  The arrivals of process_arrivals are a
\* draw of ArrivalDraws (the return coins pick a subset of the offline
\* players, the Poisson cap cuts it); process_search_starts meets the
\* lobby players in any order and tosses a coin for each.
Tick ==
    /\ current_time < MaxTime
    /\ \E arrivals \in ArrivalDraws(players, arrival_rate) :
       LET st1 == process_arrivals(SimState, arrivals, current_time)
       IN \E order \in Perms(LobbyPlayers(st1.players)) :
          \E coins \in [1..Len(order) -> BOOLEAN] :
          LET st2 == process_search_starts(st1, order, coins, parties, config, current_time)
          IN \E out \in run_tick(config, st2.searches, st2.players, st2.data_centers,
                                 parties, current_time) :
             LET st3 == [st2 EXCEPT !.searches = out.searches,
                                    !.data_centers = out.data_centers]
             IN \E st4 \in create_matches(st3, out.results, 1, config, current_time) :
                \E st5 \in process_match_completions(st4, config, current_time) :
                   LET st6 == update_stats(st5, current_time)
                   IN /\ players' = st6.players
                      /\ searches' = st6.searches
                      /\ data_centers' = st6.data_centers
                      /\ matches' = st6.matches
                      /\ stats' = st6.stats
                      /\ next_search_id' = st6.next_search_id
                      /\ next_match_id' = st6.next_match_id
                      /\ matches_since_percentile_update' = st6.matches_since_percentile_update
                      /\ match_results' = out.results
    /\ current_time' = current_time + 1
    /\ UNCHANGED <<arrival_rate, config, next_player_id, next_party_id, parties, probe>>

\* ------------------------------------------------------------------ run
\* The fields a tick changes, the clock and the results of the last
\* matchmaking among them.
Here ==
    [ current_time |-> current_time, match_results |-> match_results,
      arrival_rate |-> arrival_rate ] @@ SimState

\* tick as a function of the state S: the states it can leave, one for every
\* choice of arrivals, of iteration order and coins in process_search_starts,
\* of run_tick's outcome, of match durations and of completion draws.
tick(S, pts, cfg) ==
    LET now == S.current_time
    IN UNION {
         LET st1 == process_arrivals(S, arrivals, now)
             lobby == LobbyPlayers(st1.players)
         IN UNION {
              LET st2 == process_search_starts(st1, oc[1], oc[2], pts, cfg, now)
              IN UNION {
                   LET st3 == [st2 EXCEPT !.searches = out.searches,
                                          !.data_centers = out.data_centers]
                   IN UNION {
                        {[update_stats(st5, now) EXCEPT !.current_time = now + 1,
                                                        !.match_results = out.results] :
                            st5 \in process_match_completions(st4, cfg, now)} :
                        st4 \in create_matches(st3, out.results, 1, cfg, now)} :
                   out \in run_tick(cfg, st2.searches, st2.players, st2.data_centers, pts, now)} :
              oc \in Perms(lobby) \X [1..Cardinality(lobby) -> BOOLEAN]} :
         arrivals \in ArrivalDraws(S.players, S.arrival_rate)}

\* run(ticks): tick, ticks times over.
RECURSIVE run(_, _, _, _)
run(S, ticks, pts, cfg) ==
    IF ticks = 0 THEN {S}
    ELSE UNION {run(S1, ticks - 1, pts, cfg) : S1 \in tick(S, pts, cfg)}

\* run with a number of ticks that keeps the clock within MaxTime.
Run ==
    \E ticks \in 0..(MaxTime - current_time) :
    \E S \in run(Here, ticks, parties, config) :
        /\ current_time' = S.current_time
        /\ players' = S.players
        /\ searches' = S.searches
        /\ data_centers' = S.data_centers
        /\ matches' = S.matches
        /\ stats' = S.stats
        /\ next_search_id' = S.next_search_id
        /\ next_match_id' = S.next_match_id
        /\ matches_since_percentile_update' = S.matches_since_percentile_update
        /\ match_results' = S.match_results
        /\ UNCHANGED <<arrival_rate, config, next_player_id, next_party_id, parties, probe>>

\* ------------------------------------------------------------------ specification
Next ==
    \/ GeneratePopulation
    \/ CreateParty
    \/ JoinParty
    \/ LeaveParty
    \/ DisbandParty
    \/ UpdateConfig
    \/ Tick

Spec == Init /\ [][Next]_vars

\* The simulation of a squad: one population of four, at most the party of
\* the first two players, and ticks.
NextSquad ==
    \/ GenerateSquad
    \/ CreatePair
    \/ Tick

InitSquad == InitWith({CoarseConfig})

SpecSquad == InitSquad /\ [][NextSquad]_vars

\* A simulation with skill evolution: one population of two players, their
\* party, ticks.
GenerateDuo == next_player_id = 0 /\ GeneratePopulationOf({Duo})

InitEvolve == InitWith({EvolvingConfig, BatchedConfig})

NextEvolve ==
    \/ GenerateDuo
    \/ CreatePair
    \/ Tick
    \/ Run

SpecEvolve == InitEvolve /\ [][NextEvolve]_vars

\* reset_stats of the wasm interface: the statistics become
\* SimulationStats::default().
ResetStats ==
    /\ stats' = SimulationStats_default(DOMAIN stats)
    /\ UNCHANGED <<arrival_rate, current_time, players, data_centers, searches, matches,
                   config, next_player_id, next_search_id, next_match_id, next_party_id,
                   parties, matches_since_percentile_update, match_results, probe>>

\* set_arrival_rate with a rate of ArrivalRates.
SetArrivalRate ==
    /\ \E rate \in ArrivalRates : arrival_rate' = rate
    /\ UNCHANGED <<stats, current_time, players, data_centers, searches, matches,
                   config, next_player_id, next_search_id, next_match_id, next_party_id,
                   parties, matches_since_percentile_update, match_results, probe>>

\* A simulation of two players and their party whose statistics carry every
\* counter, with resets of the statistics and changes of the arrival rate
\* between ticks.
InitStats == Simulation_new({CoarseConfig}, CountedStats)

NextStats ==
    \/ GenerateDuo
    \/ CreatePair
    \/ Tick
    \/ ResetStats
    \/ SetArrivalRate

SpecStats == InitStats /\ [][NextStats]_vars

\* A simulation of four Team Deathmatch players with every party operation:
\* a party's search object waits in the queue until four players search.
GenerateTeam == GeneratePopulationOf({Team})

NextParty ==
    \/ GenerateTeam
    \/ CreateParty
    \/ JoinParty
    \/ LeaveParty
    \/ DisbandParty
    \/ Tick

SpecParty == InitSquad /\ [][NextParty]_vars

\* ------------------------------------------------------------------ direct calls
\* Calls of the matchmaker's and the configuration's pure functions on
\* arguments of the caller's choice, as the unit tests of matchmaker.rs and
\* types.rs make them: each call leaves its arguments and its result in probe.
simulation == <<current_time, players, data_centers, searches, matches, config, stats,
                arrival_rate,
                next_player_id, next_search_id, next_match_id, next_party_id, parties,
                matches_since_percentile_update, match_results>>

ProbeConfigs == {DefaultConfig, CoarseConfig}

\* Percentiles 0, 0.4, 0.45, 0.5, 0.6 and 1.
ProbePercentiles == {0, 2880, 3240, 3600, 4320, PercentileScale}

ProbePlaylists == {"TeamDeathmatch", "FreeForAll"}

\* A player of the site with the percentile pct, in the state given.
ProbePlayer(id, site, pct, state) ==
    [Player_new(id, Kind(site, 0, ProbePlaylists)) EXCEPT
        !.skill_percentile = pct, !.state = state]

\* n European solo players that search, with percentiles pcts.
ProbeSearchers(pcts) ==
    [id \in 0..(Len(pcts) - 1) |-> ProbePlayer(id, "EU", pcts[id + 1], "Searching")]

\* Their search objects, started at the times starts.
ProbeSearches(pcts, starts, cfg) ==
    [i \in 1..Len(pcts) |->
        SoloSearchObject(ProbeSearchers(pcts)[i - 1], i - 1, starts[i], cfg, DefaultDataCenters)]

\* check_feasibility on a lobby of two or three solo searchers.
ProbeFeasibility ==
    /\ probe = NoProbe
    /\ \E cfg \in ProbeConfigs, now \in 0..MaxTime, playlist \in ProbePlaylists, n \in 2..3 :
       \E pcts \in [1..n -> ProbePercentiles], starts \in [1..n -> 0..now] :
          probe' = [ op           |-> "check_feasibility",
                     config       |-> cfg,
                     searches     |-> ProbeSearches(pcts, starts, cfg),
                     playlist     |-> playlist,
                     current_time |-> now,
                     result       |-> check_feasibility(cfg, ProbeSearches(pcts, starts, cfg),
                                                        playlist, now, DefaultDataCenters,
                                                        ProbeSearchers(pcts)) ]
    /\ UNCHANGED simulation

\* The default configuration with a RegionConfig for Europe that sets the
\* similarity tolerance to 0 at every wait.
RegionalConfig ==
    [DefaultConfig EXCEPT !.region_configs =
        "Europe" :> [ max_ping                 |-> None,
                      delta_ping_initial       |-> None,
                      delta_ping_rate          |-> None,
                      skill_similarity_initial |-> Some(0),
                      skill_similarity_rate    |-> Some(0) ]]

\* check_feasibility under the regional configuration on a lobby of two
\* European solo searchers.
ProbeRegionFeasibility ==
    /\ probe = NoProbe
    /\ \E now \in 0..MaxTime, playlist \in ProbePlaylists :
       \E pcts \in [1..2 -> ProbePercentiles], starts \in [1..2 -> 0..now] :
          probe' = [ op           |-> "check_feasibility",
                     config       |-> RegionalConfig,
                     players      |-> ProbeSearchers(pcts),
                     searches     |-> ProbeSearches(pcts, starts, RegionalConfig),
                     playlist     |-> playlist,
                     current_time |-> now,
                     result       |-> check_feasibility(RegionalConfig,
                                          ProbeSearches(pcts, starts, RegionalConfig),
                                          playlist, now, DefaultDataCenters,
                                          ProbeSearchers(pcts)) ]
    /\ UNCHANGED simulation

\* run_tick on a queue of two or three solo searchers.
ProbeRunTick ==
    /\ probe = NoProbe
    /\ \E cfg \in ProbeConfigs, now \in 0..MaxTime, n \in 2..3 :
       \E pcts \in [1..n -> ProbePercentiles], starts \in [1..n -> 0..now] :
          probe' = [ op           |-> "run_tick",
                     config       |-> cfg,
                     searches     |-> ProbeSearches(pcts, starts, cfg),
                     current_time |-> now,
                     result       |-> run_tick(cfg, ProbeSearches(pcts, starts, cfg),
                                               ProbeSearchers(pcts), DefaultDataCenters,
                                               <<>>, now) ]
    /\ UNCHANGED simulation

\* Data centers a caller can offer: US-East, EU-West, EU-Central, Asia-East
\* and South-America of init_default_data_centers, and one of region Other.
ProbeDataCenters ==
    [id \in {0, 3, 4, 6, 9, 10} |->
        DataCenter_new(id, CASE id = 0 -> "NorthAmerica"
                             [] id \in {3, 4} -> "Europe"
                             [] id = 6 -> "AsiaPacific"
                             [] id = 9 -> "SouthAmerica"
                             [] OTHER -> "Other")]

\* Pings in milliseconds: near, beyond the initial delta, beyond max_ping.
ProbePings == {20, 45, 250}

\* Waits in seconds on both sides of the two tier boundaries.
ProbeWaits == {0, 9, 10, 29, 30, 60}

\* The most data centers one call is offered.
MaxOffered == 3

\* A player of the region with the pings given; best_ping is the least.
ProbeRegionPlayer(region, pings) ==
    [ProbePlayer(0, "NA", PercentileScale \div 2, "Searching") EXCEPT
        !.region = region, !.dc_pings = pings,
        !.best_ping = SetMin({pings[d] : d \in DOMAIN pings})]

\* Player::acceptable_dcs under the default configuration at a wait and at a
\* later wait, for a player of any region offered up to MaxOffered data centers.
ProbeAcceptableDcs ==
    /\ probe = NoProbe
    /\ \E region \in Regions, offered \in SUBSET DOMAIN ProbeDataCenters :
         /\ offered # {}
         /\ Cardinality(offered) <= MaxOffered
         /\ \E pings \in [offered -> ProbePings], wait \in ProbeWaits, later \in ProbeWaits :
              /\ wait <= later
              /\ LET dcs == [d \in offered |-> ProbeDataCenters[d]]
                     player == ProbeRegionPlayer(region, pings)
                 IN probe' = [ op           |-> "acceptable_dcs",
                               config       |-> DefaultConfig,
                               player       |-> player,
                               data_centers |-> dcs,
                               wait_time    |-> wait,
                               result       |-> acceptable_dcs(player, wait, DefaultConfig, dcs),
                               later_wait   |-> later,
                               later_result |-> acceptable_dcs(player, later, DefaultConfig, dcs) ]
    /\ UNCHANGED simulation

\* Two players of the regions given that queue for Team Deathmatch only, all
\* their pings near; generate_population gives the region Other to the
\* players it places west of longitude 100 around its Asian centre.
ProbeMembers(regions, dcs) ==
    [id \in 0..1 |->
        [ProbeRegionPlayer(regions[id + 1], [d \in DOMAIN dcs |-> 20]) EXCEPT
            !.id = id, !.state = "InLobby", !.preferred_playlists = {"TeamDeathmatch"}]]

\* create_party on them, the party's search object started at time 0, and
\* run_tick on it at the time now. A party of two fills no Team Deathmatch
\* lobby, so the search object stays in the queue as the refresh left it.
ProbePartyRefresh ==
    /\ probe = NoProbe
    /\ \E cfg \in ProbeConfigs, now \in 0..MaxTime, regions \in [1..2 -> Regions],
          offered \in SUBSET DOMAIN ProbeDataCenters :
         /\ offered # {}
         /\ Cardinality(offered) <= MaxOffered
         /\ LET dcs == [d \in offered |-> ProbeDataCenters[d]]
                made == create_party(ProbeMembers(regions, dcs), <<>>, 0, <<0, 1>>)
                ps == [id \in 0..1 |-> [made.players[id] EXCEPT !.state = "Searching"]]
                search == to_search_object(made.parties[0], 0, 0, ps, cfg, dcs)
            IN probe' = [ op           |-> "run_tick_party",
                          config       |-> cfg,
                          players      |-> ps,
                          data_centers |-> dcs,
                          searches     |-> <<search>>,
                          current_time |-> now,
                          result       |-> run_tick(cfg, <<search>>, ps, dcs, made.parties, now) ]
    /\ UNCHANGED simulation

\* The search objects the simulation creates at time 0 for the players
\* first and first + 1: one for the first alone (start_search) and one for
\* the party of both (create_party, Party::to_search_object), for every
\* choice of their sites (with the platform and input device of the site)
\* and of their percentiles among 0, 0.5 and 1.
ProbeSearchObjects(first, cfg) ==
    LET pcts == {0, PercentileScale \div 2, PercentileScale}
        Members(sites, p) ==
            [id \in first..(first + 1) |->
                ProbePlayer(id, sites[id - first + 1], p[id - first + 1], "InLobby")]
        Made(sites, p) == create_party(Members(sites, p), <<>>, 0, <<first, first + 1>>)
    IN {SoloSearchObject(Members(sites, p)[first], first, 0, cfg, DefaultDataCenters) :
            sites \in [1..2 -> Sites], p \in [1..2 -> pcts]}
       \cup
       {to_search_object(Made(sites, p).parties[0], first, 0, Made(sites, p).players,
                         cfg, DefaultDataCenters) :
            sites \in [1..2 -> Sites], p \in [1..2 -> pcts]}

\* calculate_distance on two search objects, and on the first with itself.
ProbeDistance ==
    /\ probe = NoProbe
    /\ \E cfg \in ProbeConfigs :
       \E a \in ProbeSearchObjects(0, cfg), b \in ProbeSearchObjects(2, cfg) :
          probe' = [ op          |-> "calculate_distance",
                     config      |-> cfg,
                     a           |-> a,
                     b           |-> b,
                     result      |-> calculate_distance(cfg, a, b),
                     self_result |-> calculate_distance(cfg, a, a) ]
    /\ UNCHANGED simulation

\* Waits in seconds for the backoff curves: before, at and after the points
\* where the default curves reach their caps (45 s for the ping and the
\* similarity curve, 35 s for the disparity curve).
BackoffWaits == {0, 1, 5, 10, 34, 35, 36, 44, 45, 46, 60, 600}

\* The three backoff curves under a configuration whose rates are not
\* negative and whose initial values are not above the caps, as in every
\* configuration the source constructs, at a wait and at a later wait.
ProbeBackoff ==
    /\ probe = NoProbe
    /\ \E cfg \in ProbeConfigs, wait \in BackoffWaits, later \in BackoffWaits :
         /\ wait <= later
         /\ probe' = [ op         |-> "backoff",
                       config     |-> cfg,
                       wait_time  |-> wait,
                       later_wait |-> later,
                       result     |-> [ f_ping      |-> delta_ping_backoff(cfg, wait),
                                        f_skill     |-> skill_similarity_backoff(cfg, wait),
                                        Delta_skill |-> skill_disparity_backoff(cfg, wait) ],
                       later_result |-> [ f_ping      |-> delta_ping_backoff(cfg, later),
                                          f_skill     |-> skill_similarity_backoff(cfg, later),
                                          Delta_skill |-> skill_disparity_backoff(cfg, later) ] ]
    /\ UNCHANGED simulation

\* Average skills -1, -0.5, 0, 0.5 and 1 of a party entry.
ProbeSkills == {0 - SkillScale, 0 - 60, 0, 60, SkillScale}

\* The party entries balance_teams builds for a Team Deathmatch lobby of
\* parties of one and two players: one entry per party, its members with
\* consecutive player ids.
ProbeEntries(sizes, skills) ==
    [i \in 1..Len(sizes) |->
        LET first == SeqSum([k \in 1..(i - 1) |-> sizes[k]])
        IN [ party_id   |-> Some(i - 1),
             member_ids |-> [k \in 1..sizes[i] |-> first + k - 1],
             avg_skill  |-> skills[i],
             size       |-> sizes[i] ]]

\* exact_partition_teams on the entries of a full Team Deathmatch lobby.
ProbeExactPartition ==
    /\ probe = NoProbe
    /\ \E n \in 2..(2 * TeamSize) :
       \E sizes \in [1..n -> 1..TeamSize], skills \in [1..n -> ProbeSkills] :
          /\ SeqSum(sizes) = required_players("TeamDeathmatch")
          /\ probe' = [ op       |-> "exact_partition_teams",
                        entries  |-> ProbeEntries(sizes, skills),
                        required |-> required_players("TeamDeathmatch"),
                        result   |-> exact_partition_teams(ProbeEntries(sizes, skills),
                                         required_players("TeamDeathmatch")) ]
    /\ UNCHANGED simulation

NextProbe ==
    \/ ProbeExactPartition
    \/ ProbeFeasibility
    \/ ProbeRunTick
    \/ ProbeAcceptableDcs
    \/ ProbePartyRefresh
    \/ ProbeDistance
    \/ ProbeBackoff
    \/ ProbeRegionFeasibility

SpecProbe == InitSquad /\ [][NextProbe]_vars

\* ------------------------------------------------------------------ properties
\* A step that is a tick.
IsTick == current_time' = current_time + 1

\* C1: every player is in exactly one of the states Offline, InLobby,
\* Searching, InMatch; the numbers of players in the four states sum to the
\* number of players, and so do the four counts a tick leaves in the
\* statistics; a tick neither adds nor removes a player.
C1_PopulationConservation ==
    /\ [](/\ \A id \in DOMAIN players : players[id].state \in PlayerStates
          /\ Cardinality({id \in DOMAIN players : players[id].state = "Offline"})
               + Cardinality({id \in DOMAIN players : players[id].state = "InLobby"})
               + Cardinality({id \in DOMAIN players : players[id].state = "Searching"})
               + Cardinality({id \in DOMAIN players : players[id].state = "InMatch"})
             = Cardinality(DOMAIN players))
    /\ [][IsTick =>
             /\ DOMAIN players' = DOMAIN players
             /\ stats'.players_offline + stats'.players_in_lobby
                  + stats'.players_searching + stats'.players_in_match
                = Cardinality(DOMAIN players')]_vars

\* A tick has left players in a match, a player searching and a player in a
\* party.
C1_Witness ==
    /\ current_time > 0
    /\ stats.players_in_match > 0
    /\ stats.players_searching > 0
    /\ stats.players_in_match + stats.players_searching = Cardinality(DOMAIN players)
    /\ parties # <<>>

\* C2: a player's state is InMatch exactly when its current_match is set,
\* and a set current_match names a match of the active-match table whose
\* teams contain the player.
C2_MatchReference ==
    \A id \in DOMAIN players :
        /\ players[id].state = "InMatch" <=> players[id].current_match # <<>>
        /\ players[id].current_match # <<>> =>
              /\ players[id].current_match[1] \in DOMAIN matches
              /\ \E t \in DOMAIN matches[players[id].current_match[1]].teams :
                    \E k \in DOMAIN matches[players[id].current_match[1]].teams[t] :
                       matches[players[id].current_match[1]].teams[t][k] = id

\* A second match is running after the first one has completed: one player
\* is in it and another player is not in a match.
C2_Witness ==
    /\ next_match_id = 2
    /\ 1 \in DOMAIN matches
    /\ 0 \notin DOMAIN matches
    /\ \E id \in DOMAIN players : players[id].current_match = <<1>>
    /\ \E id \in DOMAIN players : players[id].state # "InMatch"

\* C3: every player's party_id names a party of the party table; a player
\* is in a party's member list exactly when its party_id is that party's id;
\* no party of the table is without members (a disbanded or emptied party
\* has left the table).
C3_PartyCoherence ==
    /\ \A id \in DOMAIN players :
          players[id].party_id # <<>> => players[id].party_id[1] \in DOMAIN parties
    /\ \A pid \in DOMAIN parties :
          /\ parties[pid].id = pid
          /\ parties[pid].player_ids # <<>>
          /\ \A k \in DOMAIN parties[pid].player_ids :
                parties[pid].player_ids[k] \in DOMAIN players
          /\ \A id \in DOMAIN players :
                (\E k \in DOMAIN parties[pid].player_ids : parties[pid].player_ids[k] = id)
                    <=> players[id].party_id = <<pid>>

\* After a tick, a party of two has lost a member and been disbanded: the
\* table is empty again and nobody has a party id, while a former member is
\* in a match.
C3_Witness ==
    /\ current_time > 0
    /\ next_party_id > 0
    /\ parties = <<>>
    /\ \E id \in DOMAIN players : players[id].state = "InMatch"
    /\ \A id \in DOMAIN players : players[id].party_id = <<>>
\* C4: every data center has between 0 and capacity busy servers on every
\* playlist, and every lobby a tick committed was committed on a data center
\* that had a free server for the playlist at that moment, the lobbies
\* committed after another lobby of the same tick included.
C4_ServerCapacity ==
    /\ \A d \in DOMAIN data_centers :
          \A pl \in DOMAIN data_centers[d].busy_servers :
             /\ 0 <= data_centers[d].busy_servers[pl]
             /\ data_centers[d].busy_servers[pl] <= data_centers[d].server_capacity[pl]
    /\ \A k \in DOMAIN match_results :
          LET r == match_results[k]
              dc == r.dcs_at_commit[r.data_center_id]
          IN dc.busy_servers[r.playlist] < dc.server_capacity[r.playlist]

\* A tick committed two lobbies of one playlist, the second while the first
\* one's data center had no free server left.
C4_Witness ==
    /\ Len(match_results) = 2
    /\ match_results[1].playlist = match_results[2].playlist
    /\ LET dc == match_results[2].dcs_at_commit[match_results[1].data_center_id]
       IN dc.busy_servers[match_results[1].playlist]
            = dc.server_capacity[match_results[1].playlist]

\* The feasibility predicates on the committed lobby of the result r, for the
\* configuration cfg and the time now of the commit.
CommitFeasible(r, cfg, now) ==
    LET n == Len(r.lobby)
        pct(i) == r.lobby[i].avg_skill_percentile
        waited(i) == (now - r.lobby[i].search_start_time) * cfg.tick_interval
        similarity(i) ==
            IF cfg.skill_similarity_initial + cfg.skill_similarity_rate * waited(i)
                 < cfg.skill_similarity_max
            THEN cfg.skill_similarity_initial + cfg.skill_similarity_rate * waited(i)
            ELSE cfg.skill_similarity_max
        disparity(i) ==
            IF cfg.max_skill_disparity_initial + cfg.max_skill_disparity_rate * waited(i)
                 < cfg.max_skill_disparity_max
            THEN cfg.max_skill_disparity_initial + cfg.max_skill_disparity_rate * waited(i)
            ELSE cfg.max_skill_disparity_max
        dc == r.dcs_at_commit[r.data_center_id]
    IN /\ n > 0
       /\ \A i \in 1..n : r.playlist \in r.lobby[i].acceptable_playlists
       /\ \A i, j \in 1..n : pct(j) >= pct(i) - similarity(i) /\ pct(j) <= pct(i) + similarity(i)
       /\ \A i, j, m \in 1..n : pct(i) - pct(j) <= disparity(m)
       /\ \E d \in DOMAIN r.dcs_at_commit : \A i \in 1..n : d \in r.lobby[i].acceptable_dcs
       /\ \A i \in 1..n : r.data_center_id \in r.lobby[i].acceptable_dcs
       /\ dc.busy_servers[r.playlist] < dc.server_capacity[r.playlist]

\* C5: every match a tick committed satisfied, at commit time and on its
\* final lobby, all feasibility predicates: the playlist is accepted by every
\* searcher, the lobby's percentiles are within every searcher's similarity
\* tolerance, their spread is within the smallest allowed disparity, the
\* searchers' acceptable data centers intersect, and the chosen data center
\* is in the intersection and had a free server.
C5_FeasibilitySoundness ==
    [][IsTick =>
         \A k \in DOMAIN match_results' :
            CommitFeasible(match_results'[k], config, current_time)]_vars

\* A tick committed a lobby of a searcher that had waited and one that had
\* just started, from different regions.
C5_Witness ==
    \E k \in DOMAIN match_results :
        LET r == match_results[k]
        IN /\ r.is_cross_region
           /\ \E i, j \in DOMAIN r.lobby :
                 r.lobby[i].search_start_time < r.lobby[j].search_start_time

\* The members of the party pid in the roster of the result r are on one team.
PartyOnOneTeam(r, pid) ==
    LET members == {id \in DOMAIN players :
                       /\ \E k \in DOMAIN parties[pid].player_ids :
                             parties[pid].player_ids[k] = id
                       /\ \E k \in DOMAIN r.player_ids : r.player_ids[k] = id}
    IN members # {} =>
          \E t \in DOMAIN r.teams :
             \A id \in members : \E k \in DOMAIN r.teams[t] : r.teams[t][k] = id

\* C6 as stated: in every match a tick commits, of every playlist, the
\* members of a party that are in the match are on the same team.
C6_PartyIntegrity ==
    [][IsTick =>
         \A k \in DOMAIN match_results' : \A pid \in DOMAIN parties :
            PartyOnOneTeam(match_results'[k], pid)]_vars

\* C6 amended: in every match a tick commits on a two-team playlist (every
\* playlist but Free For All), the members of a party that are in the match
\* are on the same team.
C6_PartyIntegrityTwoTeams ==
    [][IsTick =>
         \A k \in DOMAIN match_results' : \A pid \in DOMAIN parties :
            match_results'[k].playlist # "FreeForAll" =>
               /\ Len(match_results'[k].teams) = 2
               /\ PartyOnOneTeam(match_results'[k], pid)]_vars

\* A tick committed a Team Deathmatch match with both members of a party
\* of two and two solo players.
C6_Witness ==
    \E k \in DOMAIN match_results : \E pid \in DOMAIN parties :
        /\ match_results[k].playlist = "TeamDeathmatch"
        /\ Len(parties[pid].player_ids) = 2
        /\ parties[pid].player_ids[1] # parties[pid].player_ids[2]
        /\ \A m \in DOMAIN parties[pid].player_ids :
              \E j \in DOMAIN match_results[k].player_ids :
                 match_results[k].player_ids[j] = parties[pid].player_ids[m]
        /\ \E j \in DOMAIN match_results[k].player_ids :
              players[match_results[k].player_ids[j]].party_id = <<>>

\* C7: with the same draws of the random number generator, the searches a
\* tick starts do not depend on the order in which the player table yields
\* the lobby players.
C7_Determinism ==
    \A o1, o2 \in Perms(LobbyPlayers(players)) :
       \A coins \in [1..Len(o1) -> BOOLEAN] :
          process_search_starts(SimState, o1, coins, parties, config, current_time)
            = process_search_starts(SimState, o2, coins, parties, config, current_time)

\* C8: right after a re-rank (a step that adds players or changes a
\* percentile), a player of higher skill has a strictly higher percentile
\* and players of equal skill have the same percentile.
C8_PercentileMonotone ==
    [][(\E id \in DOMAIN players' :
           id \notin DOMAIN players
             \/ players'[id].skill_percentile # players[id].skill_percentile)
         => \A a, b \in DOMAIN players' :
               /\ players'[a].skill < players'[b].skill
                    => players'[a].skill_percentile < players'[b].skill_percentile
               /\ players'[a].skill = players'[b].skill
                    => players'[a].skill_percentile = players'[b].skill_percentile]_vars

\* C9: every player's skill_bucket is floor(skill_percentile * B) clamped
\* to 1..B for the configured number of buckets B.
C9_BucketCoherence ==
    \A id \in DOMAIN players :
        LET B == config.num_skill_buckets
            raw == (players[id].skill_percentile * B) \div PercentileScale
        IN players[id].skill_bucket = (IF raw < 1 THEN 1 ELSE IF raw > B THEN B ELSE raw)

\* C10: whenever a tick commits a full two-team match (2 * TeamSize players,
\* twelve in the source) whose roster are all solo players, each of the two
\* teams has TeamSize (six) players.
C10_SoloTeamsEven ==
    [][IsTick =>
         \A k \in DOMAIN match_results' :
            LET r == match_results'[k]
            IN (/\ r.playlist # "FreeForAll"
                /\ Len(r.player_ids) = 2 * TeamSize
                /\ \A j \in DOMAIN r.player_ids : players[r.player_ids[j]].party_id = <<>>)
               => /\ Len(r.teams) = 2
                  /\ Len(r.teams[1]) = TeamSize
                  /\ Len(r.teams[2]) = TeamSize]_vars

\* The similarity tolerance of the search object s at the time now under
\* cfg: min(initial + rate * wait, max) with the wait in seconds.
ToleranceOf(s, now, cfg) ==
    LET t == (now - s.search_start_time) * cfg.tick_interval
        grown == cfg.skill_similarity_initial + cfg.skill_similarity_rate * t
    IN IF grown < cfg.skill_similarity_max THEN grown ELSE cfg.skill_similarity_max

\* C11: check_feasibility fails whenever the lowest or highest average
\* percentile of the lobby is outside some searcher's percentile plus or
\* minus its similarity tolerance; run_tick on two solo searchers whose
\* percentiles differ by more than the tolerance of one of them commits no
\* match and leaves both in the queue, and no lobby run_tick commits holds
\* two searchers of whom one is outside the other's tolerance.
C11_SkillContainment ==
    /\ probe.op = "check_feasibility" =>
          ((\E j, k \in DOMAIN probe.searches :
               LET f == ToleranceOf(probe.searches[j], probe.current_time, probe.config)
                   pj == probe.searches[j].avg_skill_percentile
                   pk == probe.searches[k].avg_skill_percentile
               IN pk < pj - f \/ pk > pj + f)
             => probe.result = {})
    /\ (probe.op = "run_tick" /\ Len(probe.searches) = 2) =>
          ((\E j, k \in DOMAIN probe.searches :
               LET f == ToleranceOf(probe.searches[j], probe.current_time, probe.config)
                   pj == probe.searches[j].avg_skill_percentile
                   pk == probe.searches[k].avg_skill_percentile
               IN pk < pj - f \/ pk > pj + f)
             => \A out \in probe.result :
                   /\ out.results = <<>>
                   /\ Len(out.searches) = 2
                   /\ out.searches[1].player_ids = <<0>>
                   /\ out.searches[2].player_ids = <<1>>)
    /\ probe.op = "run_tick" =>
          \A out \in probe.result : \A r \in DOMAIN out.results :
             \A j, k \in DOMAIN out.results[r].lobby :
                LET f == ToleranceOf(out.results[r].lobby[j], probe.current_time, probe.config)
                    pj == out.results[r].lobby[j].avg_skill_percentile
                    pk == out.results[r].lobby[k].avg_skill_percentile
                IN pj - f <= pk /\ pk <= pj + f

\* run_tick under the default configuration on two solo searchers of
\* percentiles 0.4 and 0.6 that have not waited: no match.
C11_Witness ==
    /\ probe.op = "run_tick"
    /\ probe.config.skill_similarity_initial = 360
    /\ probe.searches[1].avg_skill_percentile = 2880
    /\ probe.searches[2].avg_skill_percentile = 4320
    /\ probe.searches[1].search_start_time = probe.current_time
    /\ probe.searches[2].search_start_time = probe.current_time
    /\ \A out \in probe.result : out.results = <<>> /\ Len(out.searches) = 2

\* The data centers offered in the call whose ping is within best_ping plus
\* min(initial + rate * wait, max) and within max_ping.
PingPermits(wait) ==
    LET grown == probe.config.delta_ping_initial + probe.config.delta_ping_rate * wait
        delta == IF grown < probe.config.delta_ping_max THEN grown
                 ELSE probe.config.delta_ping_max
    IN {d \in DOMAIN probe.data_centers :
            /\ probe.player.dc_pings[d] <= probe.player.best_ping + delta
            /\ probe.player.dc_pings[d] <= probe.config.max_ping}

\* A call of acceptable_dcs for a North American player who is offered data
\* centers of Europe only.
ScenarioD ==
    /\ probe.op = "acceptable_dcs"
    /\ probe.player.region = "NorthAmerica"
    /\ \A d \in DOMAIN probe.data_centers : probe.data_centers[d].region = "Europe"

\* C12 as stated: in scenario D acceptable_dcs is empty below 10 s, still
\* empty from 10 s to below 30 s, and from 30 s on exactly the data centers
\* the ping rule permits.
C12_ScenarioD ==
    ScenarioD =>
        /\ probe.wait_time < 10 => probe.result = {}
        /\ (10 <= probe.wait_time /\ probe.wait_time < 30) => probe.result = {}
        /\ probe.wait_time >= 30 => probe.result = PingPermits(probe.wait_time)

\* C12 amended: in scenario D acceptable_dcs is empty below 10 s and from
\* 10 s on exactly the data centers the ping rule permits, because Europe is
\* adjacent to North America.
C12_ScenarioDAdjacent ==
    ScenarioD =>
        /\ probe.wait_time < 10 => probe.result = {}
        /\ probe.wait_time >= 10 => probe.result = PingPermits(probe.wait_time)

\* Scenario D at a wait of 10 s: a European data center is accepted.
C12_Witness ==
    /\ ScenarioD
    /\ probe.wait_time = 10
    /\ probe.result # {}
    /\ probe.result = PingPermits(10)

\* The regions the envelope names for a player of the region own after a
\* wait: own below 10 s; own and its neighbours in the graph NA-EU, NA-SA,
\* EU-APAC, APAC-SA, with every region a neighbour of Other, below 30 s; all
\* regions from 30 s on.
RegionEnvelope(own, wait) ==
    LET edges == { {"NorthAmerica", "Europe"}, {"NorthAmerica", "SouthAmerica"},
                   {"Europe", "AsiaPacific"}, {"AsiaPacific", "SouthAmerica"} }
        neighbours == IF own = "Other"
                      THEN {"NorthAmerica", "Europe", "AsiaPacific", "SouthAmerica"}
                      ELSE {r \in Regions : {own, r} \in edges}
    IN IF wait < 10 THEN {own}
       ELSE IF wait < 30 THEN {own} \cup neighbours
       ELSE {"NorthAmerica", "Europe", "AsiaPacific", "SouthAmerica", "Other"}

\* C13: acceptable_dcs accepts, of the data centers the ping rule permits,
\* exactly those of a region in the envelope of the player's region at the
\* wait, and what it accepts at a wait it accepts at every later wait.
C13_RegionEnvelope ==
    probe.op = "acceptable_dcs" =>
        /\ probe.result =
              {d \in PingPermits(probe.wait_time) :
                 probe.data_centers[d].region \in RegionEnvelope(probe.player.region, probe.wait_time)}
        /\ probe.later_result =
              {d \in PingPermits(probe.later_wait) :
                 probe.data_centers[d].region \in RegionEnvelope(probe.player.region, probe.later_wait)}
        /\ probe.result \subseteq probe.later_result

\* A European player at 10 s and at 30 s: the Asian data center is accepted
\* at both waits, the South American one only at the later.
C13_Witness ==
    /\ probe.op = "acceptable_dcs"
    /\ probe.player.region = "Europe"
    /\ probe.wait_time = 10
    /\ probe.later_wait = 30
    /\ 6 \in probe.result
    /\ 9 \in probe.later_result \ probe.result

\* C14: after the refresh at the head of run_tick the acceptable data centers
\* of a party's search object are the intersection of the sets acceptable to
\* each of its members at the search's current wait.
C14_PartyDcIntersection ==
    probe.op = "run_tick_party" =>
        \A out \in probe.result :
            /\ Len(out.searches) = 1
            /\ LET s == out.searches[1]
                   wait == (probe.current_time - s.search_start_time) * probe.config.tick_interval
               IN s.acceptable_dcs =
                    {d \in DOMAIN probe.data_centers :
                        \A i \in 1..Len(s.player_ids) :
                            d \in acceptable_dcs(probe.players[s.player_ids[i]], wait,
                                                 probe.config, probe.data_centers)}

\* C15: the distance of a search object the simulation creates, solo or
\* party, from itself is zero.
C15_DistanceZeroPoint ==
    probe.op = "calculate_distance" => probe.self_result = 0

\* The initial value, rate and cap of each curve in the configuration of the
\* call.
CurveParameters ==
    [ f_ping      |-> [initial |-> probe.config.delta_ping_initial,
                       rate    |-> probe.config.delta_ping_rate,
                       max     |-> probe.config.delta_ping_max],
      f_skill     |-> [initial |-> probe.config.skill_similarity_initial,
                       rate    |-> probe.config.skill_similarity_rate,
                       max     |-> probe.config.skill_similarity_max],
      Delta_skill |-> [initial |-> probe.config.max_skill_disparity_initial,
                       rate    |-> probe.config.max_skill_disparity_rate,
                       max     |-> probe.config.max_skill_disparity_max] ]

AnyPlayerIds == DOMAIN players \cup {next_player_id}
AnyPartyIds == DOMAIN parties \cup {next_party_id}

\* The cases in which create_party is to fail: an empty list, an unknown
\* player, a player in a party, a searching or playing player, a list
\* longer than the capacity.
CreateFails(player_ids) ==
    \/ player_ids = <<>>
    \/ \E i \in 1..Len(player_ids) :
          \/ player_ids[i] \notin DOMAIN players
          \/ players[player_ids[i]].party_id # <<>>
          \/ players[player_ids[i]].state \in {"Searching", "InMatch"}
    \/ Len(player_ids) > PartyCapacity

\* The cases in which join_party is to fail: an unknown party, a full
\* party, an unknown player, a player in a party or in an incompatible state.
JoinFails(party_id, player_id) ==
    \/ party_id \notin DOMAIN parties
    \/ Len(parties[party_id].player_ids) >= PartyCapacity
    \/ player_id \notin DOMAIN players
    \/ players[player_id].party_id # <<>>
    \/ players[player_id].state \in {"Searching", "InMatch"}

\* The cases in which leave_party is to fail: an unknown party, a player
\* who is no member.
LeaveFails(party_id, player_id) ==
    \/ party_id \notin DOMAIN parties
    \/ \A i \in 1..Len(parties[party_id].player_ids) :
          parties[party_id].player_ids[i] # player_id

\* C17: a party operation that fails returns an error and leaves the
\* players, the parties and the search queue as they were.
C17_FailedPartyOps ==
    /\ \A player_ids \in UNION {[1..n -> AnyPlayerIds] : n \in 0..(PartyCapacity + 1)} :
          CreateFails(player_ids) =>
             LET r == create_party(players, parties, next_party_id, player_ids)
             IN ~r.ok /\ r.players = players /\ r.parties = parties
                      /\ r.next_party_id = next_party_id
    /\ \A party_id \in AnyPartyIds, player_id \in AnyPlayerIds :
          /\ JoinFails(party_id, player_id) =>
                LET r == join_party(players, parties, searches, party_id, player_id)
                IN ~r.ok /\ r.players = players /\ r.parties = parties
                         /\ r.searches = searches
          /\ LeaveFails(party_id, player_id) =>
                LET r == leave_party(players, parties, searches, party_id, player_id)
                IN ~r.ok /\ r.players = players /\ r.parties = parties
                         /\ r.searches = searches
    /\ \A party_id \in AnyPartyIds :
          party_id \notin DOMAIN parties =>
             LET r == disband_party(players, parties, searches, party_id)
             IN ~r.ok /\ r.players = players /\ r.parties = parties
                      /\ r.searches = searches

\* A state with a full party, a player in no party who is in the lobby and
\* one who is searching: join_party of the first fails on the capacity,
\* create_party of the second on the state, leave_party of either on the
\* membership.
C17_Witness ==
    \E party_id \in DOMAIN parties, a \in DOMAIN players, b \in DOMAIN players :
        /\ Len(parties[party_id].player_ids) = PartyCapacity
        /\ players[a].party_id = <<>> /\ players[a].state = "InLobby"
        /\ players[b].party_id = <<>> /\ players[b].state = "Searching"
        /\ ~join_party(players, parties, searches, party_id, a).ok
        /\ ~create_party(players, parties, next_party_id, <<b>>).ok
        /\ ~leave_party(players, parties, searches, party_id, a).ok
        /\ searches # <<>>

\* Every party has from one member to the capacity and is led by the first
\* of its member list.
PartyShape ==
    \A pid \in DOMAIN parties :
        /\ 1 <= Len(parties[pid].player_ids)
        /\ Len(parties[pid].player_ids) <= PartyCapacity
        /\ parties[pid].leader_id = parties[pid].player_ids[1]

\* A step in which a party loses a member and stays: if the leader is gone,
\* the member that followed it in the list leads; if another member is gone,
\* the leader is the same.
LeaderSuccession ==
    \A pid \in DOMAIN parties \cap DOMAIN parties' :
        LET old == parties[pid]
            new == parties'[pid]
            others == SelectSeq(old.player_ids, LAMBDA id : id # old.leader_id)
        IN Len(new.player_ids) < Len(old.player_ids) =>
              IF \A i \in 1..Len(new.player_ids) : new.player_ids[i] # old.leader_id
              THEN new.leader_id = others[1]
              ELSE new.leader_id = old.leader_id

AggregatesConsistent(party, ps) ==
    LET n == Len(party.player_ids)
        skill(i) == ps[party.player_ids[i]].skill
        pct(i) == ps[party.player_ids[i]].skill_percentile
        Total(f(_)) == LET RECURSIVE Upto(_)
                           Upto(k) == IF k = 0 THEN 0 ELSE f(k) + Upto(k - 1)
                       IN Upto(n)
    IN /\ party.avg_skill = Total(skill) \div n
       /\ \E i, j \in 1..n :
             /\ party.skill_disparity = skill(i) - skill(j)
             /\ \A k \in 1..n : skill(j) <= skill(k) /\ skill(k) <= skill(i)
       /\ party.avg_skill_percentile = Total(pct) \div n
       /\ \E i, j \in 1..n :
             /\ party.skill_percentile_disparity = pct(i) - pct(j)
             /\ \A k \in 1..n : pct(j) <= pct(k) /\ pct(k) <= pct(i)

\* C19: after every tick and after every party operation the skill and
\* percentile aggregates of every party are the mean and the spread of its
\* current members' skills and percentiles.
C19_AggregatesConsistent ==
    [][(IsTick \/ parties' # parties) =>
          \A pid \in DOMAIN parties' : AggregatesConsistent(parties'[pid], players')]_vars

\* C20: every player listed in a queued search object is in state Searching.
C20_QueuedAreSearching ==
    \A i \in 1..Len(searches) :
        \A k \in 1..Len(searches[i].player_ids) :
            /\ searches[i].player_ids[k] \in DOMAIN players
            /\ players[searches[i].player_ids[k]].state = "Searching"

\* The search object of the party of players 0 and 1 is queued, its leader 0
\* has left the party, and both are searching.
C20_Witness ==
    /\ \E i \in 1..Len(searches) : searches[i].player_ids = <<0, 1>>
    /\ 0 \in DOMAIN parties
    /\ parties[0].player_ids = <<1>>
    /\ players[0].party_id = <<>>
    /\ players[0].state = "Searching"
    /\ players[1].state = "Searching"

\* C21: a queued search object that was created from a party lists exactly
\* the current members of that party.  A searching player can enter no
\* party, so a queued search object that lists a current member of a party
\* was created from that party.
C21_SearchMatchesParty ==
    \A i \in 1..Len(searches) : \A pid \in DOMAIN parties :
        LET listed == {searches[i].player_ids[k] : k \in 1..Len(searches[i].player_ids)}
            members == {parties[pid].player_ids[k] : k \in 1..Len(parties[pid].player_ids)}
        IN listed \cap members # {} => listed = members

\* C22: start_search by a member of a party starts the party's search only
\* if the member leads and every member is in the lobby: then one search
\* object with the party's member list is added and exactly the members
\* become Searching.  Otherwise no state changes and nothing is queued.
C22_PartySearchStart ==
    \A player_id \in DOMAIN players :
        (players[player_id].party_id # <<>> /\ players[player_id].party_id[1] \in DOMAIN parties) =>
            LET party == parties[players[player_id].party_id[1]]
                members == {party.player_ids[k] : k \in 1..Len(party.player_ids)}
                r == start_search(SimState, player_id, parties, config, current_time)
            IN IF /\ party.leader_id = player_id
                  /\ \A m \in members : m \in DOMAIN players /\ players[m].state = "InLobby"
               THEN /\ Len(r.searches) = Len(searches) + 1
                    /\ \A i \in 1..Len(searches) : r.searches[i] = searches[i]
                    /\ r.searches[Len(r.searches)].player_ids = party.player_ids
                    /\ \A id \in DOMAIN players :
                          r.players[id].state =
                              IF id \in members THEN "Searching" ELSE players[id].state
               ELSE /\ r.searches = searches
                    /\ \A id \in DOMAIN players : r.players[id].state = players[id].state

\* A party of two whose search a tick has started: both members search and
\* one search object lists them.
C22_Witness ==
    /\ 0 \in DOMAIN parties
    /\ parties[0].player_ids = <<0, 1>>
    /\ players[0].state = "Searching" /\ players[1].state = "Searching"
    /\ Len(searches) = 1
    /\ searches[1].player_ids = <<0, 1>>

C24_RunOutcome ==
    \A n \in 0..(MaxTime - current_time) :
    \A S \in run(Here, n, parties, config) :
        /\ S.current_time = current_time + n
        /\ n >= 1 => S.stats.ticks = current_time + n - 1
        /\ \A m \in DOMAIN S.matches \ DOMAIN matches :
              /\ S.matches[m].start_time \in current_time..(current_time + n - 1)
              /\ m \in next_match_id..(S.next_match_id - 1)

C24_TickStep ==
    IsTick =>
        /\ stats'.ticks = current_time
        /\ stats'.players_offline = CountState(players', "Offline")
        /\ stats'.players_in_lobby = CountState(players', "InLobby")
        /\ stats'.players_searching = CountState(players', "Searching")
        /\ stats'.players_in_match = CountState(players', "InMatch")
        /\ stats'.active_matches = Cardinality(DOMAIN matches')
        /\ next_match_id' = next_match_id + Len(match_results')
        /\ \A m \in DOMAIN matches' \ DOMAIN matches :
              /\ matches'[m].start_time = current_time
              /\ \A k \in 1..Len(matches'[m].teams) :
                 \A i \in 1..Len(matches'[m].teams[k]) :
                    LET id == matches'[m].teams[k][i]
                    IN id \in DOMAIN players' =>
                          /\ players'[id].state = "InMatch"
                          /\ players'[id].current_match = Some(m)
        /\ \A i \in 1..Len(searches') :
           \A k \in 1..Len(searches'[i].player_ids) :
              players'[searches'[i].player_ids[k]].state = "Searching"

C24_TickOrder == []C24_RunOutcome /\ [][C24_TickStep]_vars

\* A match registered in the second tick of a run, still active after it.
C24_Witness ==
    /\ current_time = 2
    /\ stats.ticks = 1
    /\ \E m \in DOMAIN matches : matches[m].start_time = 1

\* C25: a match registered at tick s with expected duration d >= 1 stays in
\* the table of active matches, unchanged and with its players InMatch,
\* through every tick before s + d, and the tick s + d completes it: it
\* leaves the table (its id is never handed out again), the busy counter of
\* its data center for its playlist goes down by one for it, and each of its
\* players is out of InMatch with current_match cleared.  After every tick no
\* active match has start_time + expected_duration at or before that tick.
Due(game_match) == game_match.start_time + game_match.expected_duration

C25_NoneOverdue ==
    \A m \in DOMAIN matches :
        /\ m < next_match_id
        /\ Due(matches[m]) >= current_time
        /\ matches[m].start_time < current_time

C25_TickStep ==
    IsTick =>
        /\ \A m \in DOMAIN matches :
              LET roster == Range(Flatten(matches[m].teams)) \cap DOMAIN players
              IN /\ (m \notin DOMAIN matches') <=> (current_time = Due(matches[m]))
                 /\ m \in DOMAIN matches' =>
                       /\ matches'[m] = matches[m]
                       /\ \A id \in roster : /\ players'[id].state = "InMatch"
                                              /\ players'[id].current_match = Some(m)
                 /\ m \notin DOMAIN matches' =>
                       \A id \in roster : /\ players'[id].state \in {"InLobby", "Offline"}
                                          /\ players'[id].current_match = None
        /\ \A m \in DOMAIN matches' \ DOMAIN matches : m >= next_match_id
        /\ \A d \in DOMAIN data_centers : \A pl \in DOMAIN data_centers[d].busy_servers :
              LET At(ms, m) == ms[m].data_center_id = d /\ ms[m].playlist = pl
                  registered == {m \in DOMAIN matches' \ DOMAIN matches : At(matches', m)}
                  completed == {m \in DOMAIN matches \ DOMAIN matches' : At(matches, m)}
              IN data_centers'[d].busy_servers[pl] =
                    data_centers[d].busy_servers[pl]
                        + Cardinality(registered) - Cardinality(completed)

SearchIds(q) == [i \in 1..Len(q) |-> q[i].id]
LobbyIds(results) ==
    UNION {{results[k].lobby[i].id : i \in 1..Len(results[k].lobby)} : k \in 1..Len(results)}

C26_WitnessKept ==
    /\ probe.op = "run_tick"
    /\ \E out \in probe.result :
          /\ out.results = <<>>
          /\ Len(out.searches) >= 2
          /\ out.searches[1].search_start_time > out.searches[2].search_start_time

\* C27: run_tick tries the seeds of a playlist in non-increasing wait time,
\* seeds of equal wait by smaller search-object id first, and tries the
\* candidates of a seed by ascending distance, candidates at equal distance
\* by smaller id first.  The queues are those run_matchmaking hands to
\* run_tick: the queue of the state with the searches a tick starts.
QueuesOfTick ==
    UNION {
        LET st1 == process_arrivals(SimState, arrivals, current_time)
            lobby == LobbyPlayers(st1.players)
        IN {process_search_starts(st1, oc[1], oc[2], parties, config, current_time) :
               oc \in Perms(lobby) \X [1..Cardinality(lobby) -> BOOLEAN]} :
        arrivals \in ArrivalDraws(players, arrival_rate)}

SeedOrder(st, playlist) ==
    LET order == search_order(st.searches, current_time, config)
    IN Filter(order, {idx \in 1..Len(st.searches) :
                         playlist \in st.searches[idx].acceptable_playlists})

C27_SeedAndCandidateOrder ==
    current_time < MaxTime =>
    \A st \in QueuesOfTick : \A playlist \in Playlists :
        LET seeds == SeedOrder(st, playlist)
            wait(idx) == wait_time(st.searches[idx], current_time, config)
            mm == [searches |-> st.searches, matched |-> {}]
        IN /\ \A a, b \in 1..Len(seeds) : a < b =>
                 \/ wait(seeds[a]) > wait(seeds[b])
                 \/ /\ wait(seeds[a]) = wait(seeds[b])
                    /\ st.searches[seeds[a]].id < st.searches[seeds[b]].id
           /\ \A k \in 1..Len(seeds) :
                 LET cands == Candidates(mm, seeds[k], seeds, config)
                     dist(idx) == calculate_distance(config, st.searches[seeds[k]],
                                                     st.searches[idx])
                 IN \A a, b \in 1..Len(cands) : a < b =>
                       \/ dist(cands[a]) < dist(cands[b])
                       \/ /\ dist(cands[a]) = dist(cands[b])
                          /\ st.searches[cands[a]].id < st.searches[cands[b]].id

\* After a tick that left a search in the queue, a tick can start with that
\* search as the first seed, two seeds of equal wait behind it, and a seed
\* that has two candidates at one distance.
C27_Witness ==
    /\ current_time = 1
    /\ Len(searches) = 1
    /\ \E st \in QueuesOfTick : \E playlist \in Playlists :
          LET seeds == SeedOrder(st, playlist)
              mm == [searches |-> st.searches, matched |-> {}]
              wait(idx) == wait_time(st.searches[idx], current_time, config)
          IN /\ Len(seeds) >= 3
             /\ seeds[1] = 1
             /\ wait(seeds[1]) > wait(seeds[2])
             /\ wait(seeds[2]) = wait(seeds[3])
             /\ \E k \in 1..Len(seeds) :
                   LET cands == Candidates(mm, seeds[k], seeds, config)
                   IN \E a, b \in 1..Len(cands) :
                         /\ a < b
                         /\ calculate_distance(config, st.searches[seeds[k]],
                                                st.searches[cands[a]])
                              = calculate_distance(config, st.searches[seeds[k]],
                                                   st.searches[cands[b]])

\* C28: a partition exact_partition_teams returns for party entries whose
\* sizes total the required players keeps every entry whole, gives team A
\* exactly required / 2 players, and attains the least
\* |sum skill(team A) - sum skill(team B)| of all partitions that do both,
\* an entry counting with its skill times its size.
WholePartitions(entries, required) ==
    {team1 \in SUBSET (1..Len(entries)) :
        SeqSum([i \in 1..Len(entries) |-> IF i \in team1 THEN entries[i].size ELSE 0])
            = required \div 2}

PartitionDiff(entries, team1) ==
    Abs(EntrySkill(entries, team1) - EntrySkill(entries, (1..Len(entries)) \ team1))

C28_PartitionWhole ==
    (probe.op = "exact_partition_teams" /\ IsSome(probe.result)) =>
        \E team1 \in WholePartitions(probe.entries, probe.required) :
            /\ Range(Unwrap(probe.result)[1]) = Range(EntryMembers(probe.entries, team1))
            /\ Range(Unwrap(probe.result)[2]) =
                  Range(EntryMembers(probe.entries, (1..Len(probe.entries)) \ team1))
            /\ Len(Unwrap(probe.result)[1]) = probe.required \div 2

C28_ExactPartition ==
    (probe.op = "exact_partition_teams" /\ IsSome(probe.result)) =>
        \E team1 \in WholePartitions(probe.entries, probe.required) :
            /\ Range(Unwrap(probe.result)[1]) = Range(EntryMembers(probe.entries, team1))
            /\ Range(Unwrap(probe.result)[2]) =
                  Range(EntryMembers(probe.entries, (1..Len(probe.entries)) \ team1))
            /\ Len(Unwrap(probe.result)[1]) = probe.required \div 2
            /\ \A other \in WholePartitions(probe.entries, probe.required) :
                  PartitionDiff(probe.entries, team1) <= PartitionDiff(probe.entries, other)

\* C29: a player that leaves a completed match either continues, and is then
\* InLobby with matches_in_session one higher, or quits, and is then Offline
\* with last_session_experience the experience window with the completed
\* match pushed to it, last_session_end_time the tick's time and an empty
\* experience window.  The experience window never holds more than
\* experience_window_size entries.
Window(experiences, cfg) ==
    IF Len(experiences) > cfg.experience_window_size THEN Tail(experiences) ELSE experiences

C29_WindowBound ==
    \A id \in DOMAIN players :
        /\ Len(players[id].recent_experience) <= config.experience_window_size
        /\ Len(players[id].last_session_experience) <= config.experience_window_size

C29_TickStep ==
    IsTick =>
        \A id \in DOMAIN players :
            LET before == players[id]
                after == players'[id]
            IN /\ (before.state = "InMatch" /\ after.state # "InMatch") =>
                     LET window == Window(Append(before.recent_experience,
                                                 Unwrap(before.current_match)), config)
                     IN \/ /\ after.state = "InLobby"
                           /\ after.matches_in_session = before.matches_in_session + 1
                           /\ after.recent_experience = window
                           /\ after.last_session_experience = before.last_session_experience
                           /\ after.last_session_end_time = before.last_session_end_time
                        \/ /\ after.state = "Offline"
                           /\ after.last_session_experience = window
                           /\ after.last_session_end_time = Some(current_time)
                           /\ after.recent_experience = <<>>
               /\ after.last_session_end_time = Some(current_time) =>
                     /\ after.state = "Offline"
                     /\ after.recent_experience = <<>>
                     /\ after.last_session_experience # <<>>
                     /\ after.current_match = None
               /\ (after.state = "InLobby" /\ before.state # "InMatch"
                      /\ after.recent_experience # before.recent_experience) =>
                     /\ after.matches_in_session =
                           1 + (IF before.state = "Offline" THEN 0 ELSE before.matches_in_session)
                     /\ \E m \in next_match_id..(next_match_id' - 1) :
                           after.recent_experience = Window(Append(before.recent_experience, m), config)

QuitsOfTick ==
    {id \in DOMAIN players' : players'[id].last_session_end_time = Some(current_time)}

C30_QuitsPosted ==
    [][IsTick =>
          /\ stats'.total_sessions_completed =
                stats.total_sessions_completed + Cardinality(QuitsOfTick)
          /\ SeqSum(stats'.session_length_distribution) =
                SeqSum(stats.session_length_distribution) + Cardinality(QuitsOfTick)]_vars

\* What the code does: a quit is posted when the player had completed a
\* match of the session before this one, under the number of those matches.
C30_QuitsPostedAfterFirst ==
    [][IsTick =>
          LET posted == {id \in QuitsOfTick :
                            /\ players[id].state # "Offline"
                            /\ players[id].matches_in_session > 0}
          IN /\ stats'.total_sessions_completed =
                   stats.total_sessions_completed + Cardinality(posted)
             /\ SeqSum(stats'.session_length_distribution) =
                   SeqSum(stats.session_length_distribution) + Cardinality(posted)
             /\ \A n \in 1..Len(stats'.session_length_distribution) :
                   stats'.session_length_distribution[n] =
                      (IF n <= Len(stats.session_length_distribution)
                       THEN stats.session_length_distribution[n] ELSE 0)
                      + Cardinality({id \in posted : players[id].matches_in_session = n - 1})]_vars


\* ------------------------------------------------------------------ C31
\* The players a draw of process_arrivals takes from Offline to InLobby.
Moved(ps, st) ==
    {id \in DOMAIN ps : ps[id].state = "Offline" /\ st.players[id].state = "InLobby"}

C31_Draws ==
    \A r \in SUBSET OfflinePlayers(players) :
    \A n \in poisson_sample(arrival_rate) :
    \A a \in arrivals_kept(r, n) :
       LET st == process_arrivals(SimState, [returned |-> r, arrivals |-> a], current_time)
       IN /\ Cardinality(Moved(players, st)) <= n
          /\ \A id \in DOMAIN players :
                st.players[id] # players[id] => players[id].state = "Offline"
          /\ \A id \in Moved(players, st) :
                /\ st.players[id].session_start_time = Some(current_time)
                /\ st.players[id].matches_in_session = 0
          /\ arrival_rate = 0 => st.players = players

C31_TickStep ==
    IsTick =>
       \A id \in DOMAIN players :
          players[id].state = "Offline" =>
             /\ players'[id].state # "Offline"
                   => players'[id].session_start_time = Some(current_time)
             /\ arrival_rate = 0 => players'[id].state = "Offline"

\* C31: process_arrivals moves only players that are Offline when it starts,
\* never more of them than the tick's Poisson sample, and every player it
\* moves starts a session at the current tick with no match played; a
\* player that leaves Offline during a tick has started its session at that
\* tick, and with an arrival rate of 0 no tick takes a player out of Offline.
C31_Arrivals == []C31_Draws /\ [][C31_TickStep]_vars

\* The rate is 0 after two ticks: one player arrived in the first tick and
\* is in a session since, the other never left Offline.
C31_Witness ==
    /\ arrival_rate = 0
    /\ current_time = 2
    /\ \E id, other \in DOMAIN players :
          /\ players[id].state # "Offline"
          /\ players[id].session_start_time = Some(0)
          /\ players[other].state = "Offline"
          /\ players[other].session_start_time = None
\* ------------------------------------------------------------------ C32
\* The matches a tick completes: those it had or created and has no more.
CompletedInTick ==
    Cardinality(DOMAIN matches) + (next_match_id' - next_match_id)
        - Cardinality(DOMAIN matches')

\* The re-ranks of a tick: one each time the completions since the last
\* re-rank reach skill_update_batch_size.
ReRanksInTick ==
    (matches_since_percentile_update + CompletedInTick) \div config.skill_update_batch_size

C32_History ==
    /\ Len(stats.skill_distribution_over_time) <= SnapshotLimit
    /\ config.enable_skill_evolution
          => matches_since_percentile_update < config.skill_update_batch_size

C32_TickStep ==
    IsTick /\ config.enable_skill_evolution =>
       LET history == stats.skill_distribution_over_time
       IN /\ matches_since_percentile_update' =
                (matches_since_percentile_update + CompletedInTick)
                    % config.skill_update_batch_size
          /\ (\E id \in DOMAIN players :
                 \/ players'[id].skill_percentile # players[id].skill_percentile
                 \/ players'[id].skill_bucket # players[id].skill_bucket)
                => ReRanksInTick >= 1
          /\ Len(stats'.skill_distribution_over_time) =
                Min(Len(history) + ReRanksInTick, SnapshotLimit)
          /\ ReRanksInTick >= 1 =>
                stats'.skill_distribution_over_time[Len(stats'.skill_distribution_over_time)].time
                    = current_time
          /\ ReRanksInTick = 0 => stats'.skill_distribution_over_time = history

\* C32: with skill evolution enabled a tick changes a percentile or a bucket
\* only if it re-ranks; it re-ranks once each time the matches completed
\* since the last re-rank reach skill_update_batch_size, every re-rank puts
\* one snapshot of the current tick at the end of the history, and the
\* history never holds more than SnapshotLimit snapshots.
C32_BatchedReRank == []C32_History /\ [][C32_TickStep]_vars

\* Skills have evolved without a re-rank under the batch of two (one match
\* completed, percentiles as generated), or a second re-rank has pushed the
\* first snapshot out of a full history.
C32_Witness ==
    \/ /\ config = BatchedConfig
       /\ matches_since_percentile_update = 1
       /\ stats.skill_distribution_over_time = <<>>
       /\ \E id \in DOMAIN players : players[id].skill # Duo[id + 1].skill
    \/ /\ config = EvolvingConfig
       /\ stats.total_matches = 2 /\ matches = <<>>
       /\ Len(stats.skill_distribution_over_time) = SnapshotLimit
       /\ stats.skill_distribution_over_time[1].time = 1
\* ------------------------------------------------------------------ C33
\* C33: under a configuration with a RegionConfig, check_feasibility on a
\* lobby of solo searchers fails whenever the lowest or highest percentile of
\* the lobby is outside some searcher's percentile plus or minus the
\* tolerance of region_skill_similarity_backoff for that searcher's region.
C33_RegionSkillOverride ==
    (probe.op = "check_feasibility" /\ probe.config.region_configs # <<>>) =>
       ((\E j, k \in DOMAIN probe.searches :
            LET s == probe.searches[j]
                f == region_skill_similarity_backoff(probe.config,
                         probe.players[s.player_ids[1]].region,
                         wait_time(s, probe.current_time, probe.config))
                pk == probe.searches[k].avg_skill_percentile
            IN pk < s.avg_skill_percentile - f \/ pk > s.avg_skill_percentile + f)
          => probe.result = {})
\* ------------------------------------------------------------------ C34
\* The players a tick takes out of Offline: offline before it, with a
\* session started at its time after it.
ArrivedInTick ==
    {id \in DOMAIN players :
        /\ players[id].state = "Offline"
        /\ players'[id].session_start_time = Some(current_time)}

\* C34: every tick adds to stats.total_returns the number of players its
\* process_arrivals moves from Offline to InLobby.
C34_ReturnsCounted ==
    [][IsTick => stats'.total_returns = stats.total_returns + Cardinality(ArrivedInTick)]_vars
\* ------------------------------------------------------------------ C35
\* C35: every player in state Searching is listed by exactly one search
\* object of the queue.
C35_SearchingQueuedOnce ==
    \A id \in DOMAIN players :
       players[id].state = "Searching" =>
          Cardinality({i \in 1..Len(searches) : Contains(searches[i].player_ids, id)}) = 1
\* ------------------------------------------------------------------ C36
\* The active matches that run on the data center d for the playlist.
MatchesOn(d, playlist) ==
    {m \in DOMAIN matches :
        matches[m].data_center_id = d /\ matches[m].playlist = playlist}

\* C36: for every data center and playlist, the busy-server counter is the
\* number of active matches assigned to that data center and playlist.
C36_BusyIsActive ==
    \A d \in DOMAIN data_centers :
       \A playlist \in DOMAIN data_centers[d].busy_servers :
          data_centers[d].busy_servers[playlist] = Cardinality(MatchesOn(d, playlist))

\* After two ticks one match has completed and released its server and
\* another, created in the second tick, holds one.
C36_Witness ==
    /\ current_time = 2
    /\ stats.total_matches = 2
    /\ \E m \in DOMAIN matches :
          /\ matches[m].start_time = 1
          /\ DOMAIN matches = {m}
          /\ data_centers[matches[m].data_center_id].busy_servers[matches[m].playlist] = 1
\* ------------------------------------------------------------------ C37
\* C37: no party lists a player id twice among its members.
C37_MembersDistinct ==
    \A party_id \in DOMAIN parties :
       \A i, j \in DOMAIN parties[party_id].player_ids :
          i # j => parties[party_id].player_ids[i] # parties[party_id].player_ids[j]
\* ------------------------------------------------------------------ C38
\* The matches the player has completed in its session when it quits in this
\* tick: those of the session before the tick (none for a player the tick
\* brings online) and the one the tick completes.
CompletedInSession(id) ==
    (IF players[id].state = "Offline" THEN 0 ELSE players[id].matches_in_session) + 1

\* The histogram's count of the sessions of n matches.
SessionsOfLength(distribution, n) ==
    IF n + 1 <= Len(distribution) THEN distribution[n + 1] ELSE 0

\* C38: a tick adds to the session-length histogram, under every length n,
\* the players that quit in it after completing n matches in their session,
\* the last match included.
C38_SessionLength ==
    [][IsTick =>
          \A n \in 0..(MaxTime + 1) :
             SessionsOfLength(stats'.session_length_distribution, n) =
                SessionsOfLength(stats.session_length_distribution, n)
                   + Cardinality({id \in QuitsOfTick : CompletedInSession(id) = n})]_vars
\* ------------------------------------------------------------------ C39
\* C39: the blowouts counted never exceed the matches counted, and the
\* blowout rate is between 0 and 1.
C39_BlowoutBounds ==
    /\ stats.blowout_count <= stats.total_matches
    /\ 0 <= stats.blowout_rate.num
    /\ stats.blowout_rate.num <= stats.blowout_rate.den
\* ------------------------------------------------------------------ C40
\* C40: reset_stats leaves the players, the parties, the queue, the matches
\* and the data centers as they are, and the churn threshold at the value it
\* had.
C40_ResetStatsFrame ==
    [][ResetStats =>
          /\ UNCHANGED <<players, parties, searches, matches, data_centers>>
          /\ stats'.churn_threshold_ticks = stats.churn_threshold_ticks]_vars
====
